---- MODULE Spec2Model ----
(***************************************************************************)
(* History ingestion subsystem: the Stream Extractor                       *)
(* (createHistoryStreamParser), the Rate-Limited Dispatcher (_runQueue /   *)
(* _enqueueWithRateLimit, in its two copies) and the Range Splitter        *)
(* (resolveDateRange / splitDateRange).  Each component has its own        *)
(* specification over its own variables; the variables of the other        *)
(* components stay unchanged.                                              *)
(***************************************************************************)
EXTENDS Integers, Sequences, FiniteSets, TLC

VARIABLES
  \* ---- Stream Extractor ----
  payload,      \* the response text, a sequence of one-character strings
  fedPos,       \* number of characters of payload already passed to feed
  chunksFed,    \* number of feed calls made so far
  parser,       \* the closure variables of createHistoryStreamParser
  buffer,       \* feed's local variable `buffer` while feed is suspended
  ppc,          \* position of the caller/feed: idle, onHistory, threw, done
  emitted,      \* the jsonSlices handed to onHistory, in call order
  summary,      \* the value returned by finalize()
  \* ---- Rate-Limited Dispatcher ----
  variant,      \* which copy of the dispatcher runs: "co-api" or "dates"
  now,          \* Date.now()
  rateLimiterState, \* the Map _rateLimiterState: key -> limiter state
  timer,        \* per key: due time of _runQueue's pending setTimeout, or -1
  inflight,     \* per key: the item whose task the drain loop awaits, or 0
  deadline,     \* per key: due time of the pending 10 s timeout, or -1
  tasks,        \* the submissions made so far, in submission order
  lastUrl,      \* the URL of the latest coFetch call
  dispatchLog,  \* per key: the dispatches made, in dispatch order
  \* ---- Range Splitter ----
  tz,           \* the host's time zone: its daylight-saving transition
  splitArgs,    \* the arguments of the call: start, end, chunkDays
  splitCall,    \* the call made: none, "split", "chunks" or "fetch", and
                \* what splitDateRange received
  ranges,       \* the spans returned
  splitStatus,  \* ready, returned, threw, or looping (no return seen)
  requested,    \* the spans fetchThermostatHistory has requested upstream
  \* ---- Partitioned Store Writer, Metadata Index ----
  files,        \* the partition files on disk: path -> array of records
  metadata,     \* the index held in memory by the running collection
  savedMetadata, \* metadata.json on disk
  run,          \* the collection process: "idle" (none) or "running"
  runCount,     \* the collection processes started so far
  writeCount,   \* the writes made so far
  lastWrite,    \* the latest write: its arguments, the files before it,
                \* the facts it reported, and the same of the write before
  \* ---- Range Query Engine ----
  queryArgs,    \* the arguments of findFilesForQuery
  candidates,   \* the files findFilesForQuery returned
  limit,        \* the page size of the queryFiles calls
  nextPage,     \* the page the next queryFiles call asks for
  collected,    \* the data of the pages returned so far, concatenated
  lastResult,   \* the latest result of queryFiles
  filesRead,    \* the files the latest queryFiles call passed to readFile
  qpc,          \* "idle", "found" (candidates known), "paging", "done"
  \* ---- fetchThermostatHistory: the loop over the sub-spans of a run ----
  rangeIndex,   \* the ranges the for loop has finished
  fpc,          \* position of the run: "idle", "next" (top of the loop),
                \* "streaming" (in postPelican), "returned", "saved", "failed"
  requests,     \* the requests sent upstream, in order, with the response
  streamWritesForRange, \* the files written by onHistory for this range
  writeLog,     \* the blocks handed to writeThermostatHistoryByDate, in
                \* order: the range, the path that delivered it, the block
  signal,       \* the AbortSignal given to fetchThermostatHistory:
                \* "pending" or "aborted"
  \* ---- GET /api/pelican/thermostats/:clientId ----
  routeReq,     \* the request: clientId, siteSlug and date
  directory,    \* whether getBuildings returned, and the buildings
  rpc,          \* "idle", "lookup" (in getBuildings), "posted" (in fetch),
                \* "done" (response sent)
  routeRes,     \* the response sent: status and error
  pelicanPosts,  \* the requests sent to the telemetry provider
  \* ---- two calls of writeThermostatHistoryByDate under way at once ----
  writers       \* per call: "idle", "read" (readFile returned) or
                \* "written" (writeFile returned); its records, what it
                \* read, the calls that had written by then, its place in
                \* the order of the writes, the entryCount it reported

parserVars == <<payload, fedPos, chunksFed, parser, buffer, ppc, emitted, summary>>

limiterVars == <<variant, now, rateLimiterState, timer, inflight, deadline,
                 tasks, lastUrl, dispatchLog>>

splitVars == <<tz, splitArgs, splitCall, ranges, splitStatus, requested>>

storeVars == <<files, metadata, savedMetadata, run, runCount, writeCount,
               lastWrite>>

queryVars == <<queryArgs, candidates, limit, nextPage, collected, lastResult,
               filesRead, qpc>>

fetchVars == <<rangeIndex, fpc, requests, streamWritesForRange, writeLog,
               signal>>

routeVars == <<routeReq, directory, rpc, routeRes, pelicanPosts>>

raceVars == <<writers>>

vars == <<parserVars, limiterVars, splitVars, storeVars, queryVars, fetchVars,
          routeVars, raceVars>>

notRouteVars == <<parserVars, limiterVars, splitVars, storeVars, queryVars,
                  fetchVars, raceVars>>

\* the variables each component leaves alone
notParserVars == <<limiterVars, splitVars, storeVars, queryVars, fetchVars,
   routeVars, raceVars>>
notLimiterVars == <<parserVars, splitVars, storeVars, queryVars, fetchVars,
   routeVars, raceVars>>
notSplitVars == <<parserVars, limiterVars, storeVars, queryVars, fetchVars,
   routeVars, raceVars>>
notStoreVars == <<parserVars, limiterVars, splitVars, queryVars, fetchVars,
   routeVars, raceVars>>
notQueryVars == <<parserVars, limiterVars, splitVars, storeVars, fetchVars,
   routeVars, raceVars>>

(***************************************************************************)
(* Generic sequence helpers (String.prototype.slice / indexOf / replace).  *)
(***************************************************************************)
Min(a, b) == IF a <= b THEN a ELSE b
Max(a, b) == IF a >= b THEN a ELSE b

\* s.slice(from) with a 0-based `from`
SliceFrom(s, from) == SubSeq(s, from + 1, Len(s))

\* s.slice(from, to) with 0-based `from` and exclusive `to`
Slice(s, from, to) == SubSeq(s, from + 1, to)

\* s.slice(-n)
SliceLast(s, n) == IF Len(s) <= n THEN s ELSE SubSeq(s, Len(s) - n + 1, Len(s))

\* does pat occur in s at 0-based offset i
MatchesAt(s, pat, i) ==
  /\ i + Len(pat) <= Len(s)
  /\ \A j \in 1..Len(pat) : s[i + j] = pat[j]

\* s.indexOf(pat, from): smallest 0-based offset >= from, or -1
IndexOf(s, pat, from) ==
  LET hits == {i \in from..(Len(s) - Len(pat)) : MatchesAt(s, pat, i)}
  IN IF hits = {} THEN -1 ELSE CHOOSE i \in hits : \A j \in hits : i <= j

\* the characters matched by \s or "," in /^[\s,]+/
IsSpaceOrComma(c) == c \in {" ", ","}

\* s.replace(/^[\s,]+/, "")
RECURSIVE StripLeading(_)
StripLeading(s) ==
  IF s # <<>> /\ IsSpaceOrComma(Head(s)) THEN StripLeading(Tail(s)) ELSE s

(***************************************************************************)
(* JSON.parse, as a recogniser for the JSON grammar restricted to objects, *)
(* arrays, strings (with backslash escapes) and unsigned integers.  Each   *)
(* Json* operator takes the text and a 1-based position and returns the    *)
(* position after the construct, or 0 when the text is not well-formed.    *)
(***************************************************************************)
Digits == {"0", "1", "2", "3", "4", "5", "6", "7", "8", "9"}
EscapeChars == {"\"", "\\", "/", "b", "f", "n", "r", "t"}

RECURSIVE JsonWs(_, _)
JsonWs(s, i) == IF i <= Len(s) /\ s[i] = " " THEN JsonWs(s, i + 1) ELSE i

RECURSIVE JsonStringBody(_, _)
JsonStringBody(s, i) ==
  IF i > Len(s) THEN 0
  ELSE IF s[i] = "\"" THEN i + 1
  ELSE IF s[i] = "\\"
       THEN IF i + 1 <= Len(s) /\ s[i + 1] \in EscapeChars
            THEN JsonStringBody(s, i + 2) ELSE 0
  ELSE JsonStringBody(s, i + 1)

JsonString(s, i) ==
  IF i <= Len(s) /\ s[i] = "\"" THEN JsonStringBody(s, i + 1) ELSE 0

RECURSIVE JsonNumber(_, _)
JsonNumber(s, i) ==
  IF i <= Len(s) /\ s[i] \in Digits THEN JsonNumber(s, i + 1) ELSE i

RECURSIVE JsonValue(_, _), JsonMembers(_, _), JsonElements(_, _)
JsonValue(s, i) ==
  IF i = 0 \/ i > Len(s) THEN 0
  ELSE IF s[i] = "\"" THEN JsonString(s, i)
  ELSE IF s[i] \in Digits THEN JsonNumber(s, i)
  ELSE IF s[i] = "{"
       THEN LET j == JsonWs(s, i + 1)
            IN IF j <= Len(s) /\ s[j] = "}" THEN j + 1 ELSE JsonMembers(s, j)
  ELSE IF s[i] = "["
       THEN LET j == JsonWs(s, i + 1)
            IN IF j <= Len(s) /\ s[j] = "]" THEN j + 1 ELSE JsonElements(s, j)
  ELSE 0

\* member (, member)* } starting at the first member's key
JsonMembers(s, i) ==
  LET k == JsonString(s, i)
      c == IF k = 0 THEN 0 ELSE JsonWs(s, k)
  IN IF c = 0 \/ c > Len(s) \/ s[c] # ":" THEN 0
     ELSE LET v == JsonValue(s, JsonWs(s, c + 1))
              e == IF v = 0 THEN 0 ELSE JsonWs(s, v)
          IN IF e = 0 \/ e > Len(s) THEN 0
             ELSE IF s[e] = "}" THEN e + 1
             ELSE IF s[e] = "," THEN JsonMembers(s, JsonWs(s, e + 1))
             ELSE 0

\* value (, value)* ] starting at the first element
JsonElements(s, i) ==
  LET v == JsonValue(s, i)
      e == IF v = 0 THEN 0 ELSE JsonWs(s, v)
  IN IF e = 0 \/ e > Len(s) THEN 0
     ELSE IF s[e] = "]" THEN e + 1
     ELSE IF s[e] = "," THEN JsonElements(s, JsonWs(s, e + 1))
     ELSE 0

\* TRUE iff JSON.parse(s) returns, FALSE iff it throws a SyntaxError
JsonParses(s) ==
  LET v == JsonValue(s, JsonWs(s, 1))
  IN v # 0 /\ JsonWs(s, v) = Len(s) + 1

(***************************************************************************)
(* Stream Extractor: createHistoryStreamParser                             *)
(***************************************************************************)
\* "ThermostatHistory"  (19 characters, quotes included)
KEY ==
  <<"\"","T","h","e","r","m","o","s","t","a","t","H","i","s","t","o","r",
    "y","\"">>

tailLimit == 10000

\* {"r":[{"ThermostatHistory":[{"serialNo":"A1","H":[{"t":"0"}]},{"serialNo":"B2","H":[]}]}]}
PayloadTwoBlocks ==
  <<"{","\"","r","\"",":","[","{","\"","T","h","e","r","m","o","s","t","a",
    "t","H","i","s","t","o","r","y","\"",":","[","{","\"","s","e","r","i",
    "a","l","N","o","\"",":","\"","A","1","\"",",","\"","H","\"",":","[",
    "{","\"","t","\"",":","\"","0","\"","}","]","}",",","{","\"","s","e",
    "r","i","a","l","N","o","\"",":","\"","B","2","\"",",","\"","H","\"",
    ":","[","]","}","]","}","]","}">>

\* {"ThermostatHistory": [ {"s":"\"}","n":{"x":"]\\"}} , {"s":"{"}],"message":"ok"}
PayloadEscapes ==
  <<"{","\"","T","h","e","r","m","o","s","t","a","t","H","i","s","t","o",
    "r","y","\"",":"," ","["," ","{","\"","s","\"",":","\"","\\","\"","}",
    "\"",",","\"","n","\"",":","{","\"","x","\"",":","\"","]","\\","\\",
    "\"","}","}"," ",","," ","{","\"","s","\"",":","\"","{","\"","}","]",
    ",","\"","m","e","s","s","a","g","e","\"",":","\"","o","k","\"","}">>

Payloads == {PayloadTwoBlocks, PayloadEscapes}

\* the most feed calls one response is delivered in
MaxChunks == 3

\* the closure variables right after createHistoryStreamParser returns
ParserInit ==
  [bufferChunks |-> <<>>, capturing |-> FALSE, historyFound |-> FALSE,
   historyCompleted |-> FALSE, inString |-> FALSE, escapeNext |-> FALSE,
   braceDepth |-> 0, objectStart |-> -1, tailText |-> <<>>, entryIndex |-> 0]

\* appendTail(text) (appendTailWhole does not cut the tail)
appendTailWhole(p, text) ==
  IF text = <<>> THEN p ELSE [p EXCEPT !.tailText = p.tailText \o text]

appendTail(p, text) ==
  IF text = <<>> THEN p
  ELSE [p EXCEPT !.tailText = SliceLast(p.tailText \o text, tailLimit)]

(***************************************************************************)
(* The inner while loop of feed.  A scan is a record: the parser p, the    *)
(* local buffer buf, the loop variable index, and stop, which is "run"     *)
(* while the loop goes on, "emit" when a closing brace brought braceDepth  *)
(* to 0 (jsonSlice is the text handed to emitHistory, buf the rest of the  *)
(* local buffer, to be scanned from index 0 after the await), "closed"     *)
(* when "]" was met at depth 0 and feed returned, "end" when index         *)
(* reached buf.length.                                                     *)
(***************************************************************************)
\* one evaluation of the loop condition and, if it holds, of the loop body
ScanStep(s) ==
  IF s.stop # "run" THEN s
  ELSE IF s.index >= Len(s.buf) THEN [s EXCEPT !.stop = "end"]
  ELSE
    LET char == s.buf[s.index + 1]
        p == s.p
        next == [s EXCEPT !.index = @ + 1]
    IN
    IF p.inString
    THEN IF p.escapeNext THEN [next EXCEPT !.p.escapeNext = FALSE]
         ELSE IF char = "\\" THEN [next EXCEPT !.p.escapeNext = TRUE]
         ELSE IF char = "\"" THEN [next EXCEPT !.p.inString = FALSE]
         ELSE next
    ELSE IF char = "\"" THEN [next EXCEPT !.p.inString = TRUE]
    ELSE IF char = "{"
    THEN [next EXCEPT !.p.objectStart =
                         IF p.braceDepth = 0 THEN s.index ELSE @,
                      !.p.braceDepth = @ + 1]
    ELSE IF char = "}"
    THEN LET depth == IF p.braceDepth > 0 THEN p.braceDepth - 1
                                          ELSE p.braceDepth
         IN IF depth = 0 /\ p.objectStart # -1
            THEN [stop |-> "emit",
                  p |-> [p EXCEPT !.braceDepth = depth, !.objectStart = -1],
                  buf |-> StripLeading(SliceFrom(s.buf, s.index + 1)),
                  index |-> 0,
                  jsonSlice |-> Slice(s.buf, p.objectStart, s.index + 1)]
            ELSE [next EXCEPT !.p.braceDepth = depth]
    ELSE IF char = "]" /\ p.braceDepth = 0
    THEN [stop |-> "closed",
          p |-> [appendTail(p, SliceFrom(s.buf, s.index + 1)) EXCEPT
                   !.bufferChunks = <<>>, !.capturing = FALSE,
                   !.historyCompleted = TRUE],
          buf |-> <<>>, index |-> 0, jsonSlice |-> <<>>]
    ELSE next

\* n evaluations of the loop, one after the other, up to the one that ends it
RECURSIVE ScanSteps(_, _)
ScanSteps(s, n) ==
  IF n <= 0 THEN s
  ELSE IF n = 1 THEN ScanStep(s)
  ELSE LET half == ScanSteps(s, n \div 2)
       IN IF half.stop # "run" THEN half
          ELSE ScanSteps(half, n - (n \div 2))

\* the loop run from position index of buf until it suspends or ends: at
\* most buf.length - index iterations and one more test of the condition
ScanLoop(p, buf, index) ==
  ScanSteps([stop |-> "run", p |-> p, buf |-> buf, index |-> index,
             jsonSlice |-> <<>>], Len(buf) - index + 1)

\* the statements after the inner loop: keep the open object, store the buffer
AfterLoop(p, buf) ==
  IF p.objectStart > 0
  THEN [p EXCEPT !.bufferChunks = SliceFrom(buf, p.objectStart),
                 !.objectStart = 0]
  ELSE [p EXCEPT !.bufferChunks = buf]

\* The part of feed before the inner loop, while the key is being looked
\* for.  found = FALSE: feed returns with the parser p; found = TRUE: the
\* scan starts on buf with the scanning state reset.
LocateArray(p, buf) ==
  LET keyIndex == IndexOf(buf, KEY, 0)
      arrayStart == IndexOf(buf, <<"[">>, keyIndex + Len(KEY))
  IN IF keyIndex = -1
     THEN [found |-> FALSE, buf |-> <<>>,
           p |-> [p EXCEPT !.bufferChunks =
                    IF Len(buf) > Len(KEY)
                    THEN SliceFrom(buf, Len(buf) - Len(KEY)) ELSE buf]]
     ELSE IF arrayStart = -1
     THEN [found |-> FALSE, buf |-> <<>>,
           p |-> [p EXCEPT !.bufferChunks = SliceFrom(buf, keyIndex)]]
     ELSE [found |-> TRUE, buf |-> SliceFrom(buf, arrayStart + 1),
           p |-> [p EXCEPT !.historyFound = TRUE, !.capturing = TRUE,
                           !.inString = FALSE, !.escapeNext = FALSE,
                           !.braceDepth = 0, !.objectStart = -1]]

\* emitHistory up to its await: JSON.parse, then entryIndex += 1
\* (emitHistoryLenient hands on a slice that does not parse)
emitHistoryLenient(p, jsonSlice) ==
  [threw |-> FALSE, p |-> [p EXCEPT !.entryIndex = @ + 1]]

emitHistory(p, jsonSlice) ==
  IF JsonParses(jsonSlice)
  THEN [threw |-> FALSE, p |-> [p EXCEPT !.entryIndex = @ + 1]]
  ELSE [threw |-> TRUE, p |-> p]

\* Run the scan of feed from index 0 of buf up to the next suspension
\* (await onHistory), the throw of emitHistory, or the return of feed.
RunScan(p, buf) ==
  LET r == ScanLoop(p, buf, 0) IN
  IF r.stop = "emit"
  THEN LET e == emitHistory(r.p, r.jsonSlice)
       IN /\ parser' = e.p
          /\ buffer' = r.buf
          /\ IF e.threw
             THEN ppc' = "threw" /\ emitted' = emitted
             ELSE ppc' = "onHistory" /\ emitted' = Append(emitted, r.jsonSlice)
  ELSE /\ parser' = IF r.stop = "closed" THEN r.p ELSE AfterLoop(r.p, r.buf)
       /\ buffer' = <<>>
       /\ ppc' = "idle"
       /\ emitted' = emitted

\* feed(chunk), from the call to its first suspension or its return; the
\* chunk is the next n characters of the response.
Feed(n) ==
  /\ ppc = "idle"
  /\ fedPos < Len(payload)
  /\ n \in 1..(Len(payload) - fedPos)
  /\ chunksFed + 1 < MaxChunks \/ n = Len(payload) - fedPos
  /\ LET chunk == SubSeq(payload, fedPos + 1, fedPos + n) IN
     /\ fedPos' = fedPos + n
     /\ chunksFed' = chunksFed + 1
     /\ IF parser.historyCompleted
        THEN /\ parser' = appendTail(parser, chunk)
             /\ UNCHANGED <<buffer, ppc, emitted>>
        ELSE LET joined == parser.bufferChunks \o chunk IN
             IF ~parser.capturing
             THEN LET loc == LocateArray(parser, joined)
                  IN IF loc.found
                     THEN RunScan(loc.p, loc.buf)
                     ELSE /\ parser' = loc.p
                          /\ UNCHANGED <<buffer, ppc, emitted>>
             ELSE RunScan(parser, joined)
  /\ UNCHANGED <<payload, summary>>
  /\ UNCHANGED notParserVars

\* onHistory's promise resolves: feed goes on scanning its local buffer
OnHistoryReturn ==
  /\ ppc = "onHistory"
  /\ RunScan(parser, buffer)
  /\ UNCHANGED <<payload, fedPos, chunksFed, summary>>
  /\ UNCHANGED notParserVars

\* finalize(), called once the whole response has been fed
Finalize ==
  /\ ppc = "idle"
  /\ fedPos = Len(payload)
  /\ summary' = [historyFound |-> parser.historyFound,
                 historyCompleted |-> parser.historyCompleted,
                 entryCount |-> parser.entryIndex]
  /\ ppc' = "done"
  /\ UNCHANGED <<payload, fedPos, chunksFed, parser, buffer, emitted>>
  /\ UNCHANGED notParserVars

NoSummary == [historyFound |-> FALSE, historyCompleted |-> FALSE, entryCount |-> -1]

ParserStart(pl) ==
  /\ payload = pl
  /\ fedPos = 0
  /\ chunksFed = 0
  /\ parser = ParserInit
  /\ buffer = <<>>
  /\ ppc = "idle"
  /\ emitted = <<>>
  /\ summary = NoSummary


(***************************************************************************)
(* Rate-Limited Dispatcher: _getLimiterState, _runQueue,                   *)
(* _enqueueWithRateLimit, _extractClientKeyFromUrl, coFetch.  The two      *)
(* copies differ in _runQueue only: the "dates" copy races the task        *)
(* against a 10 s timeout, the "co-api" copy awaits the task alone.        *)
(***************************************************************************)
Variants == {"co-api", "dates"}

GLOBAL == "__global__"
Keys == {"1841", GLOBAL}

CLIENT_QPS_1841 == 10
DEFAULT_QPS == 10
GLOBAL_QPS == 10
DATES_QPS == 10
TimeoutMs == 10000

\* the most submissions made in one run
MaxSubmits == 2
\* Date.now() when the process starts handling requests
StartNow == 1000
\* the step by which the clock is advanced
TickMs == 50
\* the number of clock steps explored (the clock may still jump to a due time)
MaxTicks == 1

\* the request URLs handed to coFetch: with a client parameter, without
\* one, with an empty one, and a string that new URL() rejects
NoParam == "(none)"
Urls == {[valid |-> TRUE, client |-> "1841"], [valid |-> TRUE, client |-> NoParam],
         [valid |-> TRUE, client |-> ""], [valid |-> FALSE, client |-> NoParam]}

\* how a task behaves once called: it settles (resolves or rejects) or it
\* never does
Kinds == {"settles", "hang"}

_extractClientKeyFromUrl(url) ==
  IF ~url.valid THEN GLOBAL
  ELSE IF url.client = NoParam \/ url.client = "" THEN GLOBAL
  ELSE url.client

\* the intervalMs coFetch computes for a key
IntervalMs(v, clientKey) ==
  LET qps == IF v = "dates" THEN DATES_QPS
             ELSE IF clientKey = GLOBAL THEN GLOBAL_QPS
             ELSE IF clientKey = "1841" THEN CLIENT_QPS_1841
             ELSE DEFAULT_QPS
  IN Max(1, 1000 \div Max(1, qps))

\* _getLimiterState(key, intervalMs): the Map afterwards
_getLimiterState(m, key, intervalMs) ==
  LET created ==
        IF key \in DOMAIN m THEN m
        ELSE [k \in DOMAIN m \cup {key} |->
                IF k = key
                THEN [intervalMs |-> intervalMs, lastRunMs |-> 0,
                      queue |-> <<>>, running |-> FALSE]
                ELSE m[k]]
  IN [created EXCEPT ![key].intervalMs = intervalMs]

\* waitMs of _runQueue (WaitMsGlobalClock spaces a key's dispatch from the
\* latest dispatch of any key, WaitMsNone does not space at all)
WaitMsGlobalClock(m, key, t) ==
  LET last == CHOOSE x \in {m[k].lastRunMs : k \in DOMAIN m} :
                \A y \in {m[k].lastRunMs : k \in DOMAIN m} : x >= y
  IN Max(0, last + m[key].intervalMs - t)

WaitMsNone(m, key, t) == 0

WaitMs(m, key, t) == Max(0, m[key].lastRunMs + m[key].intervalMs - t)

\* _runQueue(state) up to its return: stop the drain loop on an empty
\* queue, else arm the timer of the next dispatch
\* (RunQueueStaysOn does not clear running on an empty queue,
\* RunQueueOnce does not arm the timer again)
RunQueueStaysOn(m, tm, key) ==
  IF Len(m[key].queue) = 0
  THEN [m |-> m, timer |-> tm]
  ELSE [m |-> m, timer |-> [tm EXCEPT ![key] = now + WaitMs(m, key, now)]]

RunQueueOnce(m, tm, key) ==
  IF Len(m[key].queue) = 0 \/ m[key].lastRunMs > 0
  THEN [m |-> [m EXCEPT ![key].running = FALSE], timer |-> tm]
  ELSE [m |-> m, timer |-> [tm EXCEPT ![key] = now + WaitMs(m, key, now)]]

_runQueue(m, tm, key) ==
  IF Len(m[key].queue) = 0
  THEN [m |-> [m EXCEPT ![key].running = FALSE], timer |-> tm]
  ELSE [m |-> m, timer |-> [tm EXCEPT ![key] = now + WaitMs(m, key, now)]]

\* queue.shift(): the item taken and the queue left (ShiftLast is
\* queue.pop())
ShiftLast(q) == [item |-> q[Len(q)], rest |-> SubSeq(q, 1, Len(q) - 1)]

Shift(q) == [item |-> Head(q), rest |-> Tail(q)]

\* coFetch(url): _enqueueWithRateLimit(clientKey, intervalMs, task)
Submit(url, kind) ==
  /\ Len(tasks) < MaxSubmits
  /\ LET key == _extractClientKeyFromUrl(url)
         id == Len(tasks) + 1
         st == _getLimiterState(rateLimiterState, key, IntervalMs(variant, key))
         pushed == [st EXCEPT ![key].queue = Append(@, id)]
     IN /\ tasks' = Append(tasks,
                      [key |-> key, kind |-> kind,
                       result |-> "pending", exec |-> "queued",
                       wokeEarly |-> /\ ~pushed[key].running
                                     /\ pushed[key].lastRunMs > 0
                                     /\ WaitMs(pushed, key, now) > 0])
        /\ lastUrl' = url
        /\ IF ~pushed[key].running
           THEN LET r == _runQueue([pushed EXCEPT ![key].running = TRUE],
                                   timer, key)
                IN rateLimiterState' = r.m /\ timer' = r.timer
           ELSE rateLimiterState' = pushed /\ timer' = timer
  /\ UNCHANGED <<variant, now, inflight, deadline, dispatchLog>>
  /\ UNCHANGED notLimiterVars

\* the setTimeout callback of _runQueue, up to `await`: take the head of
\* the queue, stamp lastRunMs, call the task
TimerFire(key) ==
  /\ key \in DOMAIN rateLimiterState
  /\ timer[key] >= 0
  /\ now >= timer[key]
  /\ LET sh == Shift(rateLimiterState[key].queue) IN
     /\ rateLimiterState' = [rateLimiterState EXCEPT ![key].queue = sh.rest,
                                                     ![key].lastRunMs = now]
     /\ inflight' = [inflight EXCEPT ![key] = sh.item]
     /\ tasks' = [tasks EXCEPT ![sh.item].exec = "executing"]
     /\ dispatchLog' = [dispatchLog EXCEPT ![key] =
                          Append(@, [id |-> sh.item, at |-> now])]
  /\ timer' = [timer EXCEPT ![key] = -1]
  /\ deadline' = [deadline EXCEPT ![key] =
                    IF variant = "dates" THEN now + TimeoutMs ELSE -1]
  /\ UNCHANGED <<variant, now, lastUrl>>
  /\ UNCHANGED notLimiterVars

\* the awaited task settles: resolve or reject the item's promise, then
\* the finally block calls _runQueue
TaskSettle(key, outcome) ==
  /\ inflight[key] # 0
  /\ tasks[inflight[key]].kind # "hang"
  /\ LET id == inflight[key]
         r == _runQueue(rateLimiterState, timer, key)
     IN /\ tasks' = [tasks EXCEPT ![id].result = outcome,
                                  ![id].exec = "finished"]
        /\ rateLimiterState' = r.m
        /\ timer' = r.timer
  /\ inflight' = [inflight EXCEPT ![key] = 0]
  /\ deadline' = [deadline EXCEPT ![key] = -1]
  /\ UNCHANGED <<variant, now, lastUrl, dispatchLog>>
  /\ UNCHANGED notLimiterVars

\* the 10 s timer of Promise.race fires first ("dates" copy only): the
\* item's promise is rejected with the timeout error and the finally block
\* calls _runQueue; the task itself is not cancelled
Timeout(key) ==
  /\ variant = "dates"
  /\ inflight[key] # 0
  /\ deadline[key] >= 0
  /\ now >= deadline[key]
  /\ LET id == inflight[key]
         r == _runQueue(rateLimiterState, timer, key)
     IN /\ tasks' = [tasks EXCEPT ![id].result = "timeout"]
        /\ rateLimiterState' = r.m
        /\ timer' = r.timer
  /\ inflight' = [inflight EXCEPT ![key] = 0]
  /\ deadline' = [deadline EXCEPT ![key] = -1]
  /\ UNCHANGED <<variant, now, lastUrl, dispatchLog>>
  /\ UNCHANGED notLimiterVars

\* a task that lost the race settles later: nobody listens any more
LateSettle(id) ==
  /\ id \in 1..Len(tasks)
  /\ tasks[id].exec = "executing"
  /\ tasks[id].result = "timeout"
  /\ tasks[id].kind # "hang"
  /\ tasks' = [tasks EXCEPT ![id].exec = "finished"]
  /\ UNCHANGED <<variant, now, rateLimiterState, timer, inflight, deadline,
                 lastUrl, dispatchLog>>
  /\ UNCHANGED notLimiterVars

\* time passes
Tick ==
  /\ now < StartNow + MaxTicks * TickMs
  /\ now' = now + TickMs
  /\ UNCHANGED <<variant, rateLimiterState, timer, inflight, deadline, tasks,
                 lastUrl, dispatchLog>>
  /\ UNCHANGED notLimiterVars

\* time passes until a pending timer of the key is due
AdvanceToDue(key) ==
  /\ \E due \in {timer[key], deadline[key]} :
       /\ due > now
       /\ now' = due
  /\ UNCHANGED <<variant, rateLimiterState, timer, inflight, deadline, tasks,
                 lastUrl, dispatchLog>>
  /\ UNCHANGED notLimiterVars

LimiterStart(v) ==
  /\ variant = v
  /\ now = StartNow
  /\ rateLimiterState = <<>>
  /\ timer = [k \in Keys |-> -1]
  /\ inflight = [k \in Keys |-> 0]
  /\ deadline = [k \in Keys |-> -1]
  /\ tasks = <<>>
  /\ lastUrl = [valid |-> FALSE, client |-> NoParam]
  /\ dispatchLog = [k \in Keys |-> <<>>]

(***************************************************************************)
(* Range Splitter: toPelicanDateTime, normalizeDateInput,                  *)
(* resolveDateRange, splitDateRange, createRangeChunks.                    *)
(*                                                                         *)
(* A Date is an instant [day, ms]: day*DAY + ms milliseconds after local   *)
(* midnight of 2025-01-01 in standard time.  The Date methods used by the  *)
(* code (setHours, setDate, getTimezoneOffset, the parse of a string       *)
(* without offset) work on local time, so the instant of a wall-clock      *)
(* reading depends on the zone: tz.shift milliseconds are added to local   *)
(* time from 02:00 of day tz.day on (no transition when tz.shift = 0).     *)
(* An ISO string of second precision is [day, sec], the local calendar     *)
(* day and the second of that day.                                         *)
(***************************************************************************)
MAX_RANGE_DAYS == 30
DEFAULT_CHUNK_DAYS == 30
DEFAULT_HISTORY_YEARS == 2

HOUR == 60 * 60 * 1000
DAY == 24 * HOUR
LastMsOfDay == DAY - 1

Norm(day, ms) == [day |-> day + (ms \div DAY), ms |-> ms % DAY]
Before(a, b) == a.day < b.day \/ (a.day = b.day /\ a.ms < b.ms)
MinDate(a, b) == IF Before(b, a) THEN b ELSE a

\* the last calendar day offered as an input
MaxDay == 70
\* the day on which clocks go forward (2025-03-09 is day 67)
DstDay == 67

TimeZones == {[shift |-> 0, day |-> 0], [shift |-> HOUR, day |-> DstDay]}

\* the local-time offset in force at an instant / at a wall-clock reading
OffsetAt(z, t) ==
  IF z.shift # 0 /\ ~Before(t, [day |-> z.day, ms |-> 2 * HOUR])
  THEN z.shift ELSE 0

OffsetOfLocal(z, l) ==
  IF z.shift # 0 /\ ~Before(l, [day |-> z.day, ms |-> 2 * HOUR + z.shift])
  THEN z.shift ELSE 0

\* the wall-clock reading of an instant, and back
ToLocal(z, t) == Norm(t.day, t.ms + OffsetAt(z, t))
FromLocal(z, l) == Norm(l.day, l.ms - OffsetOfLocal(z, l))

\* toPelicanDateTime(date): the local reading cut to seconds
toPelicanDateTime(z, t) ==
  [day |-> ToLocal(z, t).day, sec |-> ToLocal(z, t).ms \div 1000]

\* new Date("YYYY-MM-DDTHH:MM:SS"): a string without offset is local time
ParseLocal(z, iso) == FromLocal(z, [day |-> iso.day, ms |-> iso.sec * 1000])

\* date.setHours(h, m, s, ms): same local day, given time of day
SetHours(z, t, msOfDay) ==
  FromLocal(z, [day |-> ToLocal(z, t).day, ms |-> msOfDay])

\* (NextStartSameDay leaves out setDate(getDate() + 1))
NextStartSameDay(z, rangeEnd) ==
  FromLocal(z, [day |-> ToLocal(z, rangeEnd).day, ms |-> 0])

\* nextStart: setDate(getDate() + 1) then setHours(0, 0, 0, 0)
NextStart(z, rangeEnd) ==
  FromLocal(z, [day |-> ToLocal(z, rangeEnd).day + 1, ms |-> 0])

\* rangeEnd of one iteration (RangeEndNoClamp leaves out the clamp to end)
RangeEndNoClamp(z, rangeStart, end, chunkDays) ==
  LET rawEnd == Norm(rangeStart.day + chunkDays, rangeStart.ms - 1)
  IN SetHours(z, MinDate(end, rawEnd), LastMsOfDay)

RangeEnd(z, rangeStart, end, chunkDays) ==
  LET rawEnd == Norm(rangeStart.day + chunkDays, rangeStart.ms - 1)
      dayEnd == SetHours(z, MinDate(end, rawEnd), LastMsOfDay)
  IN IF Before(end, dayEnd) THEN end ELSE dayEnd

\* The while loop of splitDateRange.  An iteration state is the cursor,
\* the ranges pushed so far, and done, set when the loop condition fails
\* or the loop breaks.
SplitStep(z, end, chunkDays, s) ==
  IF s.done THEN s
  ELSE IF Before(end, s.cursor) THEN [s EXCEPT !.done = TRUE]
  ELSE LET rangeStart == s.cursor
           rangeEnd == RangeEnd(z, rangeStart, end, chunkDays)
           out == Append(s.ranges,
                    [startDateTime |-> toPelicanDateTime(z, rangeStart),
                     endDateTime |-> toPelicanDateTime(z, rangeEnd)])
           nextStart == NextStart(z, rangeEnd)
       IN IF ~Before(rangeStart, nextStart)
          THEN [done |-> TRUE, cursor |-> s.cursor, ranges |-> out]
          ELSE [done |-> FALSE, cursor |-> nextStart, ranges |-> out]

\* n evaluations of the loop, one after the other, up to the one that ends it
RECURSIVE SplitSteps(_, _, _, _, _)
SplitSteps(z, end, chunkDays, s, n) ==
  IF n <= 0 THEN s
  ELSE IF n = 1 THEN SplitStep(z, end, chunkDays, s)
  ELSE LET half == SplitSteps(z, end, chunkDays, s, n \div 2)
       IN IF half.done THEN half
          ELSE SplitSteps(z, end, chunkDays, half, n - (n \div 2))

\* the most iterations the loop is followed for: one per calendar day of
\* the range and one more test of the condition
MaxIterations(start, end) == end.day - start.day + 3

SplitLoop(z, start, end, chunkDays) ==
  SplitSteps(z, end, chunkDays,
             [done |-> FALSE, cursor |-> start, ranges |-> <<>>],
             MaxIterations(start, end))

\* An argument that is no date: undefined, or a string that new Date()
\* turns into an Invalid Date.  Both are written as ISO records with a
\* negative sec.
Missing == [day |-> 0, sec |-> -1]
InvalidDate == [day |-> 0, sec |-> -2]
IsDate(x) == x.sec >= 0

\* the chunkDays test of splitDateRange (AnyChunkDays accepts every value)
AnyChunkDays(chunkDays) == TRUE

ValidChunkDays(chunkDays) == ~(chunkDays < 1 \/ chunkDays > MAX_RANGE_DAYS)

\* splitDateRange(startDateTime, endDateTime, chunkDays) on two ISO strings
splitDateRange(z, startDateTime, endDateTime, chunkDays) ==
  IF startDateTime = Missing \/ endDateTime = Missing
  THEN [threw |-> TRUE, done |-> TRUE, ranges |-> <<>>]
  ELSE IF ~ValidChunkDays(chunkDays)
  THEN [threw |-> TRUE, done |-> TRUE, ranges |-> <<>>]
  ELSE IF ~IsDate(startDateTime) \/ ~IsDate(endDateTime)
  THEN [threw |-> TRUE, done |-> TRUE, ranges |-> <<>>]
  ELSE LET start == ParseLocal(z, startDateTime)
           end == ParseLocal(z, endDateTime)
       IN IF Before(end, start)
          THEN [threw |-> TRUE, done |-> TRUE, ranges |-> <<>>]
          ELSE LET s == SplitLoop(z, start, end, chunkDays)
               IN [threw |-> FALSE, done |-> s.done, ranges |-> s.ranges]

\* normalizeDateInput(input): "YYYY-MM-DD" is read as local midnight,
\* "YYYY-MM-DDTHH:MM:SS" gets a Z appended and is read as UTC
normalizeDateInput(z, fmt, input) ==
  IF fmt = "date" THEN FromLocal(z, [day |-> input.day, ms |-> 0])
  ELSE [day |-> input.day, ms |-> input.sec * 1000]

\* new Date() when the range is resolved: some instant of the last day
\* offered
Today == [day |-> MaxDay, ms |-> 12 * HOUR]

\* start.setFullYear(start.getFullYear() - defaultYears) on a date of
\* early 2025: the same local day and time of day that many years
\* earlier, 2024-02-29 lying in between when the years are two or more
SetFullYearBack(z, t, years) ==
  FromLocal(z, [day |-> ToLocal(z, t).day
                          - (365 * years + (IF years >= 2 THEN 1 ELSE 0)),
                ms |-> ToLocal(z, t).ms])

\* resolveDateRange({startDateTime, endDateTime, defaultYears})
resolveDateRange(z, fmt, startDateTime, endDateTime) ==
  LET failed == [threw |-> TRUE, startISO |-> startDateTime,
                 endISO |-> endDateTime]
  IN
  IF endDateTime = InvalidDate THEN failed
  ELSE
    LET end == SetHours(z, IF endDateTime = Missing THEN Today
                           ELSE normalizeDateInput(z, fmt, endDateTime),
                        LastMsOfDay)
    IN
    IF startDateTime = InvalidDate THEN failed
    ELSE
      LET start == SetHours(z,
                     IF startDateTime = Missing
                     THEN SetFullYearBack(z, end, DEFAULT_HISTORY_YEARS)
                     ELSE normalizeDateInput(z, fmt, startDateTime), 0)
      IN IF Before(end, start) THEN failed
         ELSE [threw |-> FALSE, startISO |-> toPelicanDateTime(z, start),
               endISO |-> toPelicanDateTime(z, end)]

\* the most upstream requests followed in one run
MaxPosts == 2

\* the inputs offered: days, times of day (in seconds), chunk sizes
StartDays == {0, 45}
SecChoices == {0, 12 * 3600, 24 * 3600 - 1}
ChunkChoices == {1, 7, 30}
DateInputs(days) == [day : days, sec : SecChoices]
\* and for the calls with an argument that is refused or defaulted
EdgeDays == {0, 45, MaxDay}
EdgeChunkChoices == {0, 1, 30, 31}
SplitInputs ==
  [start : DateInputs(StartDays), end : DateInputs(0..MaxDay),
   chunkDays : ChunkChoices]
  \cup [start : DateInputs(StartDays) \cup {Missing, InvalidDate},
        end : DateInputs(EdgeDays) \cup {Missing, InvalidDate},
        chunkDays : EdgeChunkChoices]

NoCall == [via |-> "none", fmt |-> "none", start |-> [day |-> 0, sec |-> 0],
           end |-> [day |-> 0, sec |-> 0], chunkDays |-> 0]

\* splitDateRange called with the arguments as they are
SplitDateRange ==
  /\ splitStatus = "ready"
  /\ \E r \in {splitDateRange(tz, splitArgs.start, splitArgs.end,
                                splitArgs.chunkDays)} :
        /\ splitCall' = [via |-> "split", fmt |-> "datetime",
                         start |-> splitArgs.start,
                         end |-> splitArgs.end,
                         chunkDays |-> splitArgs.chunkDays]
        /\ ranges' = r.ranges
        /\ splitStatus' = IF r.threw THEN "threw"
                           ELSE IF r.done THEN "returned" ELSE "looping"
  /\ UNCHANGED <<tz, splitArgs, requested>>
  /\ UNCHANGED notSplitVars

\* createRangeChunks(options): resolveDateRange, then splitDateRange
CreateRangeChunks(fmt) ==
  /\ splitStatus = "ready"
  /\ \E res \in {resolveDateRange(tz, fmt, splitArgs.start, splitArgs.end)} :
     \E r \in {IF res.threw THEN [threw |-> TRUE, done |-> TRUE, ranges |-> <<>>]
               ELSE splitDateRange(tz, res.startISO, res.endISO,
                                   splitArgs.chunkDays)} :
        /\ splitCall' = [via |-> "chunks", fmt |-> fmt,
                         start |-> res.startISO, end |-> res.endISO,
                         chunkDays |-> splitArgs.chunkDays]
        /\ ranges' = r.ranges
        /\ splitStatus' = IF r.threw THEN "threw"
                           ELSE IF r.done THEN "returned" ELSE "looping"
  /\ UNCHANGED <<tz, splitArgs, requested>>
  /\ UNCHANGED notSplitVars

\* fetchThermostatHistory(options) up to its loop over the ranges:
\* resolveDateRange, then splitDateRange
FetchThermostatHistory(fmt) ==
  /\ splitStatus = "ready"
  /\ \E res \in {resolveDateRange(tz, fmt, splitArgs.start, splitArgs.end)} :
     \E r \in {IF res.threw THEN [threw |-> TRUE, done |-> TRUE, ranges |-> <<>>]
               ELSE splitDateRange(tz, res.startISO, res.endISO,
                                   splitArgs.chunkDays)} :
        /\ splitCall' = [via |-> "fetch", fmt |-> fmt,
                         start |-> res.startISO, end |-> res.endISO,
                         chunkDays |-> splitArgs.chunkDays]
        /\ ranges' = r.ranges
        /\ splitStatus' = IF r.threw THEN "threw"
                           ELSE IF r.done THEN "returned" ELSE "looping"
  /\ UNCHANGED <<tz, splitArgs, requested>>
  /\ UNCHANGED notSplitVars

\* one iteration of fetchThermostatHistory's loop over the ranges: the
\* next span is requested upstream
PostRange ==
  /\ splitStatus = "returned"
  /\ splitCall.via = "fetch"
  /\ Len(requested) < Min(Len(ranges), MaxPosts)
  /\ requested' = Append(requested, ranges[Len(requested) + 1])
  /\ UNCHANGED <<tz, splitArgs, splitCall, ranges, splitStatus>>
  /\ UNCHANGED notSplitVars

SplitStart(z, args) ==
  /\ tz = z
  /\ splitArgs = args
  /\ splitCall = NoCall
  /\ ranges = <<>>
  /\ splitStatus = "ready"
  /\ requested = <<>>

(***************************************************************************)
(* Partitioned Store Writer (writeThermostatHistoryByDate) and Metadata    *)
(* Index (loadMetadata, saveMetadata, updateMetadataForEntry), driven by   *)
(* the collection script (main of pelican-api.js).                         *)
(*                                                                         *)
(* A record is [timestamp, payload].  A timestamp is [date, time]: the     *)
(* calendar date its text starts with, and the rest of the text; dates     *)
(* and times are numbered in the order of their texts.  A serial number    *)
(* and a path segment are sequences of characters.  A path is              *)
(* [site, segment, date], standing for                                     *)
(* {baseDir}/{site}/{segment}/{year}/{month}/{day}.json.                   *)
(***************************************************************************)
\* f with key k set to v
Put(f, k, v) == [x \in DOMAIN f \cup {k} |-> IF x = k THEN v ELSE f[x]]

\* a record without timestamp, and the date found in such a record
NoTimestamp == [date |-> 0, time |-> 0]
NoDate == 0

\* (extractFirstDate takes every timestamp to be of day 1)
extractFirstDate(timestamp) == IF timestamp = NoTimestamp THEN NoDate ELSE 1

extractDateFromTimestamp(timestamp) ==
  IF timestamp = NoTimestamp THEN NoDate ELSE timestamp.date

\* a.localeCompare(b) on two timestamps
localeCompare(a, b) ==
  IF a = b THEN 0
  ELSE IF a.date < b.date \/ (a.date = b.date /\ a.time < b.time) THEN -1
  ELSE 1

\* Array.prototype.sort with the comparator of line 140 (stable)
RECURSIVE InsertByTimestamp(_, _)
InsertByTimestamp(sorted, r) ==
  IF sorted = <<>> THEN <<r>>
  ELSE IF localeCompare(r.timestamp, Head(sorted).timestamp) < 0
       THEN <<r>> \o sorted
       ELSE <<Head(sorted)>> \o InsertByTimestamp(Tail(sorted), r)

\* (NoSort leaves the order as it is)
NoSort(s) == s

RECURSIVE SortByTimestamp(_)
SortByTimestamp(s) ==
  IF s = <<>> THEN <<>>
  ELSE InsertByTimestamp(SortByTimestamp(SubSeq(s, 1, Len(s) - 1)), s[Len(s)])

\* the recordMap loop: the first record of each timestamp, in order of
\* first appearance; records without timestamp are left out
\* (MergeKeepAll keeps every record)
MergeKeepAll(records, acc) == acc \o records

RECURSIVE MergeByTimestamp(_, _)
MergeByTimestamp(records, acc) ==
  IF records = <<>> THEN acc
  ELSE LET r == Head(records)
           has == \E i \in 1..Len(acc) : acc[i].timestamp = r.timestamp
       IN MergeByTimestamp(Tail(records),
            IF r.timestamp # NoTimestamp /\ ~has THEN Append(acc, r) ELSE acc)

\* Array.from(recordMap.values()) for [...existingRecords, ...records]
\* (MergeNewFirst puts the new records first, MergeReplace leaves the
\* existing ones out)
MergeReplace(existingRecords, records) == MergeByTimestamp(records, <<>>)

MergeNewFirst(existingRecords, records) ==
  MergeByTimestamp(records \o existingRecords, <<>>)

MergeRecords(existingRecords, records) ==
  MergeByTimestamp(existingRecords \o records, <<>>)

\* sanitizeFileSegment(value, fallback): trim, then every run of
\* characters outside [a-zA-Z0-9._-] becomes one "-"
SegmentChars == {"A", "B", "1", "2", ".", "_", "-"}

RECURSIVE Trim(_)
Trim(s) ==
  IF s = <<>> THEN s
  ELSE IF Head(s) = " " THEN Trim(Tail(s))
  ELSE IF s[Len(s)] = " " THEN Trim(SubSeq(s, 1, Len(s) - 1))
  ELSE s

RECURSIVE ReplaceRuns(_, _)
ReplaceRuns(s, inRun) ==
  IF s = <<>> THEN <<>>
  ELSE IF Head(s) \in SegmentChars
       THEN <<Head(s)>> \o ReplaceRuns(Tail(s), FALSE)
       ELSE (IF inRun THEN <<>> ELSE <<"-">>) \o ReplaceRuns(Tail(s), TRUE)

sanitizeFileSegment(value, fallback) ==
  LET cleaned == ReplaceRuns(Trim(value), FALSE)
  IN IF cleaned = <<>> THEN fallback ELSE cleaned

Unknown == <<"u", "n", "k", "n", "o", "w", "n">>

\* the index before anything was saved: what the catch of loadMetadata
\* returns (lastUpdated, a clock reading, is left out)
EmptyMetadata == [sites |-> <<>>, indexVersion |-> "1.0"]

\* loadMetadata(baseDir): the document (EmptyMetadata stands for no
\* document), or the empty index when readFile or JSON.parse throws
loadMetadata(document, readable) ==
  IF readable THEN document ELSE EmptyMetadata

RECURSIVE SumEntryCounts(_)
SumEntryCounts(dateRanges) ==
  IF dateRanges = <<>> THEN 0
  ELSE Head(dateRanges).entryCount + SumEntryCounts(Tail(dateRanges))

\* (InsertAtEnd leaves the new entry where push put it)
InsertAtEnd(sorted, r) == Append(sorted, r)

\* dateRanges.sort((a, b) => a.date.localeCompare(b.date))
RECURSIVE InsertByDate(_, _)
InsertByDate(sorted, r) ==
  IF sorted = <<>> THEN <<r>>
  ELSE IF r.date < Head(sorted).date THEN <<r>> \o sorted
       ELSE <<Head(sorted)>> \o InsertByDate(Tail(sorted), r)

RECURSIVE SortByDate(_)
SortByDate(s) ==
  IF s = <<>> THEN <<>>
  ELSE InsertByDate(SortByDate(SubSeq(s, 1, Len(s) - 1)), s[Len(s)])

\* device.totalEntries after an update (IncrementTotal adds the new count
\* to the old total)
IncrementTotal(oldTotal, dateRanges, entryCount) == oldTotal + entryCount

RecomputeTotal(oldTotal, dateRanges, entryCount) == SumEntryCounts(dateRanges)

\* The store root (streamOutputDir) and paths: a path is the directory it
\* starts from ("." for a relative path) and the segments below it.
BaseDir == "history-stream"

\* path.resolve(baseDir, siteSlug, serialSegment, year, month) + day.json
TargetPath(baseDir, siteSlug, serialSegment, date) ==
  [dir |-> baseDir, site |-> siteSlug, segment |-> serialSegment, date |-> date]

\* path.relative(baseDir, filePath) for a file below baseDir
PathRelative(baseDir, filePath) ==
  IF filePath.dir = baseDir THEN [filePath EXCEPT !.dir = "."] ELSE filePath

\* path.resolve(baseDir, filePath)
PathResolve(baseDir, filePath) ==
  IF filePath.dir = "." THEN [filePath EXCEPT !.dir = baseDir] ELSE filePath

\* updateMetadataForEntry(metadata, fact) with baseDir: the index afterwards
updateMetadataForEntry(md, f, baseDir) ==
  LET sites1 == IF f.siteSlug \in DOMAIN md.sites THEN md.sites
                ELSE Put(md.sites, f.siteSlug, [devices |-> <<>>])
      site == sites1[f.siteSlug]
      devices1 == IF f.serialNo \in DOMAIN site.devices THEN site.devices
                  ELSE Put(site.devices, f.serialNo,
                           [dateRanges |-> <<>>, totalEntries |-> 0])
      device == devices1[f.serialNo]
      found == {i \in 1..Len(device.dateRanges) :
                  device.dateRanges[i].date = f.date}
      entry == [date |-> f.date, entryCount |-> f.entryCount,
                filePath |-> PathRelative(baseDir, f.filePath)]
      ranges1 ==
        IF found # {}
        THEN LET first == CHOOSE i \in found : \A j \in found : i <= j
             IN [device.dateRanges EXCEPT ![first] = entry]
        ELSE SortByDate(Append(device.dateRanges, entry))
      device1 == [dateRanges |-> ranges1,
                  totalEntries |-> RecomputeTotal(device.totalEntries, ranges1,
                                                  f.entryCount)]
  IN [md EXCEPT !.sites = Put(sites1, f.siteSlug,
                    [devices |-> Put(devices1, f.serialNo, device1)])]

\* the dates of the records, in order of first appearance (the keys of
\* recordsByDate)
RECURSIVE DatesOf(_, _)
DatesOf(records, acc) ==
  IF records = <<>> THEN acc
  ELSE LET date == extractDateFromTimestamp(Head(records).timestamp)
       IN DatesOf(Tail(records),
            IF date = NoDate \/ (\E i \in 1..Len(acc) : acc[i] = date)
            THEN acc ELSE Append(acc, date))

\* the loop over recordsByDate: one merge-write and one index update per
\* date; st is [files, metadata, facts]
RECURSIVE WriteDates(_, _, _, _, _)
WriteDates(st, siteSlug, serialNo, historyRecords, dates) ==
  IF dates = <<>> THEN st
  ELSE
    LET date == Head(dates)
        records == SelectSeq(historyRecords,
                     LAMBDA r : extractDateFromTimestamp(r.timestamp) = date)
        targetPath == TargetPath(BaseDir, siteSlug,
                                 sanitizeFileSegment(serialNo, Unknown), date)
        existingRecords == IF targetPath \in DOMAIN st.files
                           THEN st.files[targetPath] ELSE <<>>
        mergedRecords == SortByTimestamp(MergeRecords(existingRecords, records))
        fact == [siteSlug |-> siteSlug, serialNo |-> serialNo, date |-> date,
                 entryCount |-> Len(mergedRecords), filePath |-> targetPath]
    IN WriteDates([files |-> Put(st.files, targetPath, mergedRecords),
                   metadata |-> updateMetadataForEntry(st.metadata, fact, BaseDir),
                   facts |-> Append(st.facts, fact)],
                  siteSlug, serialNo, historyRecords, Tail(dates))

\* writeThermostatHistoryByDate({siteSlug, entry, onEntryWritten}) with
\* the onEntryWritten of the collection script
writeThermostatHistoryByDate(fs, md, siteSlug, entry) ==
  IF entry.serialNo = <<>> \/ entry.History = <<>>
  THEN [files |-> fs, metadata |-> md, facts |-> <<>>]
  ELSE WriteDates([files |-> fs, metadata |-> md, facts |-> <<>>],
                  siteSlug, entry.serialNo, entry.History,
                  DatesOf(entry.History, <<>>))

\* The device blocks offered: the site and the serial number sent by
\* upstream (<<>>: none), the timestamps of the History array (none; one;
\* two of one day out of order; one twice; two days; one record without
\* timestamp), and the tag of the batch.
Sites == {"s1", "s2"}
Serials == {<<"B", "/", "2">>, <<"B", "-", "2">>, <<>>}
Devices == {[siteSlug |-> "s1", serialNo |-> <<"B", "/", "2">>],
            [siteSlug |-> "s1", serialNo |-> <<"B", "-", "2">>],
            [siteSlug |-> "s2", serialNo |-> <<"B", "-", "2">>],
            [siteSlug |-> "s2", serialNo |-> <<>>]}
Stamp(date, time) == [date |-> date, time |-> time]
Batches == {<<>>, <<Stamp(1, 1)>>, <<Stamp(1, 2), Stamp(1, 1)>>,
            <<Stamp(1, 1), Stamp(1, 1)>>, <<Stamp(2, 1), Stamp(1, 2)>>,
            <<NoTimestamp, Stamp(2, 1)>>}
Tags == {"a", "b"}
\* the most writes followed and processes started
MaxWrites == 2
MaxRuns == 2

\* the History array of a device block: one record per timestamp, its
\* payload telling the batch and the position it came in
HistoryOf(stamps, tag) ==
  [i \in 1..Len(stamps) |->
     [timestamp |-> stamps[i], payload |-> [batch |-> tag, pos |-> i]]]

NoWrite == [made |-> FALSE, siteSlug |-> "", entry |-> [serialNo |-> <<>>,
            History |-> <<>>], before |-> <<>>, facts |-> <<>>,
            again |-> FALSE, prevFacts |-> <<>>]

\* one call of writeThermostatHistoryByDate by the onHistory callback of
\* fetchThermostatHistory, with the index update of the collection script
Write(siteSlug, entry) ==
  /\ run = "running"
  /\ LET r == writeThermostatHistoryByDate(files, metadata, siteSlug, entry)
     IN /\ files' = r.files
        /\ metadata' = r.metadata
        /\ lastWrite' = [made |-> TRUE, siteSlug |-> siteSlug, entry |-> entry,
                         before |-> files, facts |-> r.facts,
                         again |-> /\ lastWrite.made
                                   /\ lastWrite.siteSlug = siteSlug
                                   /\ lastWrite.entry = entry,
                         prevFacts |-> lastWrite.facts]
  /\ UNCHANGED <<savedMetadata, run, runCount>>
  /\ UNCHANGED notStoreVars

\* a device block arrives and is written
WriteEntry(siteSlug, serialNo, stamps, tag) ==
  /\ writeCount < MaxWrites
  /\ writeCount' = writeCount + 1
  /\ Write(siteSlug, [serialNo |-> serialNo, History |-> HistoryOf(stamps, tag)])

\* the same device block arrives again, right after it was written
Rewrite ==
  /\ lastWrite.made
  /\ ~lastWrite.again
  /\ writeCount' = writeCount
  /\ Write(lastWrite.siteSlug, lastWrite.entry)

(***************************************************************************)
(* Two calls of writeThermostatHistoryByDate for one partition, under way  *)
(* at once in one process: each awaits readFile, merges, and awaits        *)
(* writeFile; the other call may run at either await.                      *)
(***************************************************************************)
RaceWriters == {1, 2}
RaceDevice == [siteSlug |-> "s1", serialNo |-> <<"B", "-", "2">>]
\* the batches of the two calls, all of the one day
RaceBatches == {<<Stamp(1, 1)>>, <<Stamp(1, 2)>>,
                <<Stamp(1, 2), Stamp(1, 1)>>, <<Stamp(1, 3)>>}
RaceTag(w) == IF w = 1 THEN "a" ELSE "b"
RacePath == TargetPath(BaseDir, RaceDevice.siteSlug,
                       sanitizeFileSegment(RaceDevice.serialNo, Unknown),
                       extractDateFromTimestamp(Stamp(1, 1)))

NoWriter == [pc |-> "idle", records |-> <<>>, existingRecords |-> <<>>,
             readAfter |-> {}, order |-> 0, entryCount |-> 0]

HaveWritten == {v \in RaceWriters : writers[v].pc = "written"}

\* call w up to the return of readFile: existingRecords
WriterReads(w, stamps) ==
  /\ writers[w].pc = "idle"
  /\ writers' = [writers EXCEPT ![w] =
       [pc |-> "read",
        records |-> HistoryOf(stamps, RaceTag(w)),
        existingRecords |-> IF RacePath \in DOMAIN files
                            THEN files[RacePath] ELSE <<>>,
        readAfter |-> HaveWritten, order |-> 0, entryCount |-> 0]]
  /\ UNCHANGED <<storeVars, parserVars, limiterVars, splitVars, queryVars,
                 fetchVars, routeVars>>

\* (WriterWritesLocked reads the file again at the write, as under a lock)
WriterWritesLocked(w) ==
  /\ writers[w].pc = "read"
  /\ LET held == IF RacePath \in DOMAIN files THEN files[RacePath] ELSE <<>>
         mergedRecords ==
           SortByTimestamp(MergeRecords(held, writers[w].records))
     IN /\ files' = Put(files, RacePath, mergedRecords)
        /\ writers' = [writers EXCEPT ![w].pc = "written",
                                       ![w].order = Cardinality(HaveWritten) + 1,
                                       ![w].entryCount = Len(mergedRecords)]
  /\ UNCHANGED <<metadata, savedMetadata, run, runCount, writeCount,
                 lastWrite>>
  /\ UNCHANGED <<parserVars, limiterVars, splitVars, queryVars, fetchVars,
                 routeVars>>

\* call w from the merge to the return of writeFile and the entryCount
\* pushed to writtenFiles
WriterWrites(w) ==
  /\ writers[w].pc = "read"
  /\ LET mergedRecords ==
           SortByTimestamp(MergeRecords(writers[w].existingRecords,
                                        writers[w].records))
     IN /\ files' = Put(files, RacePath, mergedRecords)
        /\ writers' = [writers EXCEPT ![w].pc = "written",
                                       ![w].order = Cardinality(HaveWritten) + 1,
                                       ![w].entryCount = Len(mergedRecords)]
  /\ UNCHANGED <<metadata, savedMetadata, run, runCount, writeCount,
                 lastWrite>>
  /\ UNCHANGED <<parserVars, limiterVars, splitVars, queryVars, fetchVars,
                 routeVars>>

RaceStart == writers = [w \in RaceWriters |-> NoWriter]

RaceIdle == RaceStart

\* main of the collection script starts: loadMetadata
StartRun ==
  /\ run = "idle"
  /\ runCount < MaxRuns
  /\ run' = "running"
  /\ runCount' = runCount + 1
  /\ metadata' = loadMetadata(savedMetadata, TRUE)
  /\ UNCHANGED <<files, savedMetadata, writeCount, lastWrite>>
  /\ UNCHANGED notStoreVars

\* main starts and loadMetadata cannot read or parse the document that is
\* there (readFile rejects, or the text is no JSON): the catch answers
StartRunUnreadable ==
  /\ run = "idle"
  /\ runCount < MaxRuns
  /\ savedMetadata # EmptyMetadata
  /\ run' = "running"
  /\ runCount' = runCount + 1
  /\ metadata' = loadMetadata(savedMetadata, FALSE)
  /\ UNCHANGED <<files, savedMetadata, writeCount, lastWrite>>
  /\ UNCHANGED notStoreVars

\* main reaches saveMetadata and ends
SaveMetadata ==
  /\ run = "running"
  /\ run' = "idle"
  /\ savedMetadata' = metadata
  /\ metadata' = EmptyMetadata
  /\ UNCHANGED <<files, runCount, writeCount, lastWrite>>
  /\ UNCHANGED notStoreVars

\* fetchThermostatHistory rejects (a failed request, a parse error): main
\* ends without reaching saveMetadata
FailRun ==
  /\ run = "running"
  /\ run' = "idle"
  /\ metadata' = EmptyMetadata
  /\ UNCHANGED <<files, savedMetadata, runCount, writeCount, lastWrite>>
  /\ UNCHANGED notStoreVars

StoreStart ==
  /\ files = <<>>
  /\ metadata = EmptyMetadata
  /\ savedMetadata = EmptyMetadata
  /\ run = "idle"
  /\ runCount = 0
  /\ writeCount = 0
  /\ lastWrite = NoWrite

\* the store before any collection
StoreIdle == StoreStart

(***************************************************************************)
(* Range Query Engine (src/pelican/query.js).                              *)
(***************************************************************************)
\* Date strings given to a query: "YYYY-MM-DD" of a day, the empty string,
\* or text that is no date.
DateString(day) == [text |-> "date", day |-> day]
EmptyString == [text |-> "", day |-> 0]
NotADate == [text |-> "soon", day |-> 0]

\* new Date(value).valueOf(): midnight UTC of the day, NaN for no date
NaN == -1
DateValue(value) == IF value.text = "date" THEN value.day * DAY ELSE NaN

\* a >= b and a <= b on Date objects (false when either is NaN)
Geq(a, b) == a # NaN /\ b # NaN /\ a >= b
Leq(a, b) == a # NaN /\ b # NaN /\ a <= b

\* (InRangeExclusiveEnd leaves the end date out)
InRangeExclusiveEnd(rangeDate, start, end) ==
  Geq(rangeDate, start) /\ Leq(rangeDate, end) /\ rangeDate # end

\* the filter of matchingRanges
InRange(rangeDate, start, end) == Geq(rangeDate, start) /\ Leq(rangeDate, end)

\* findFilesForQuery(metadata, {siteSlug, serialNo, startDate, endDate,
\* baseDir})
findFilesForQuery(md, q) ==
  IF q.siteSlug = "" \/ q.serialNo = <<>> \/ q.startDate = EmptyString
       \/ q.endDate = EmptyString
  THEN <<>>
  ELSE IF q.siteSlug \notin DOMAIN md.sites THEN <<>>
  ELSE IF q.serialNo \notin DOMAIN md.sites[q.siteSlug].devices THEN <<>>
  ELSE
    LET device == md.sites[q.siteSlug].devices[q.serialNo]
        start == DateValue(q.startDate)
        end == DateValue(q.endDate)
        matchingRanges ==
          SelectSeq(device.dateRanges,
                    LAMBDA range :
                      InRange(DateValue(DateString(range.date)), start, end))
    IN [i \in 1..Len(matchingRanges) |->
          [path |-> PathResolve(q.baseDir, matchingRanges[i].filePath),
           date |-> matchingRanges[i].date,
           entryCount |-> matchingRanges[i].entryCount]]

\* (TakeNoSkip takes the entries from the first on, whatever skipCount)
TakeNoSkip(st, entries, skipCount, pageLimit) ==
  LET n == Min(Len(entries), pageLimit - st.yielded)
  IN [st EXCEPT !.results = @ \o SubSeq(entries, 1, n), !.yielded = @ + n]

\* the inner loop of queryFiles over the entries of one file;
\* st is [results, skipped, yielded, reads]
RECURSIVE TakeEntries(_, _, _, _)
TakeEntries(st, entries, skipCount, pageLimit) ==
  IF entries = <<>> THEN st
  ELSE IF st.skipped < skipCount
       THEN TakeEntries([st EXCEPT !.skipped = @ + 1], Tail(entries),
                        skipCount, pageLimit)
  ELSE IF st.yielded >= pageLimit THEN st
  ELSE TakeEntries([st EXCEPT !.results = Append(@, Head(entries)),
                              !.yielded = @ + 1],
                   Tail(entries), skipCount, pageLimit)

\* (TakeFilesAll does not leave the loop when the page is full)
RECURSIVE TakeFilesAll(_, _, _, _, _)
TakeFilesAll(st, fs, list, skipCount, pageLimit) ==
  IF list = <<>> THEN st
  ELSE LET filePath == Head(list).path
           entries == IF filePath \in DOMAIN fs THEN fs[filePath] ELSE <<>>
       IN TakeFilesAll(TakeEntries([st EXCEPT !.reads = Append(@, filePath)],
                                   entries, skipCount, pageLimit),
                       fs, Tail(list), skipCount, pageLimit)

\* the outer loop of queryFiles over the files: readFile for each until
\* the page is full; a file that cannot be read is skipped
RECURSIVE TakeFiles(_, _, _, _, _)
TakeFiles(st, fs, list, skipCount, pageLimit) ==
  IF list = <<>> \/ st.yielded >= pageLimit THEN st
  ELSE LET filePath == Head(list).path
           entries == IF filePath \in DOMAIN fs THEN fs[filePath] ELSE <<>>
       IN TakeFiles(TakeEntries([st EXCEPT !.reads = Append(@, filePath)],
                                entries, skipCount, pageLimit),
                    fs, Tail(list), skipCount, pageLimit)

\* skipCount (SkipCountFromOne takes the first page to be page 1)
SkipCountFromOne(page, pageLimit) == (page + 1) * pageLimit

SkipCount(page, pageLimit) == page * pageLimit

\* pagination.hasMore
HasMore(fs, list, page, pageLimit, yielded) ==
  yielded = pageLimit /\ Len(list) > 0

\* queryFiles(files, {page, limit})
queryFiles(fs, list, page, pageLimit) ==
  LET st == TakeFiles([results |-> <<>>, skipped |-> 0, yielded |-> 0,
                       reads |-> <<>>],
                      fs, list, SkipCount(page, pageLimit), pageLimit)
  IN [data |-> st.results,
      reads |-> st.reads,
      pagination |-> [page |-> page, limit |-> pageLimit,
                      hasMore |-> HasMore(fs, list, page, pageLimit,
                                          st.yielded),
                      totalReturned |-> Len(st.results)]]

\* The stores queried: those a collection leaves after up to
\* MaxQueryWrites device blocks, written and saved.
MaxQueryWrites == 2
QueryBatches == {<<Stamp(1, 1)>>, <<Stamp(1, 2), Stamp(1, 1)>>,
                 <<Stamp(2, 1), Stamp(1, 2)>>}
QueryDevices == {d \in Devices : d.serialNo # <<>>}

RECURSIVE StoresAfter(_)
StoresAfter(n) ==
  IF n = 0 THEN {[files |-> <<>>, metadata |-> EmptyMetadata]}
  ELSE LET earlier == StoresAfter(n - 1)
       IN earlier \cup
            {LET r == writeThermostatHistoryByDate(
                        st.files, st.metadata, d.siteSlug,
                        [serialNo |-> d.serialNo,
                         History |-> HistoryOf(stamps, "a")])
             IN [files |-> r.files, metadata |-> r.metadata] :
               st \in earlier, d \in QueryDevices, stamps \in QueryBatches}

\* the arguments of a query, and the page sizes
MaxLimit == 3
MaxPages == 5
QuerySites == Sites \cup {"", "s3"}
QuerySerials == Serials \cup {<<"A", "1">>}
QueryDates == {EmptyString, NotADate, DateString(1), DateString(2)}
QueryInputs ==
  [siteSlug : QuerySites, serialNo : QuerySerials, startDate : QueryDates,
   endDate : QueryDates, baseDir : {BaseDir}]

NoQuery == [siteSlug |-> "", serialNo |-> <<>>, startDate |-> EmptyString,
            endDate |-> EmptyString, baseDir |-> BaseDir]
NoResult == [data |-> <<>>,
             pagination |-> [page |-> 0, limit |-> 0, hasMore |-> FALSE,
                             totalReturned |-> 0]]

\* loadMetadataIndex, then findFilesForQuery
FindFilesForQuery(q) ==
  /\ qpc = "idle"
  /\ queryArgs' = q
  /\ candidates' = findFilesForQuery(savedMetadata, q)
  /\ qpc' = "found"
  /\ UNCHANGED <<limit, nextPage, collected, lastResult, filesRead>>
  /\ UNCHANGED notQueryVars

\* queryFiles for the next page; the caller stops when hasMore is false
QueryFiles(pageLimit) ==
  /\ \/ qpc = "found" /\ limit' = pageLimit
     \/ qpc = "paging" /\ limit' = limit /\ pageLimit = limit
  /\ nextPage < MaxPages
  /\ LET result == queryFiles(files, candidates, nextPage, limit')
     IN /\ lastResult' = [data |-> result.data, pagination |-> result.pagination]
        /\ filesRead' = result.reads
        /\ collected' = collected \o result.data
        /\ qpc' = IF result.pagination.hasMore THEN "paging" ELSE "done"
  /\ nextPage' = nextPage + 1
  /\ UNCHANGED <<queryArgs, candidates>>
  /\ UNCHANGED notQueryVars

QueryStart ==
  /\ queryArgs = NoQuery
  /\ candidates = <<>>
  /\ limit = 0
  /\ nextPage = 0
  /\ collected = <<>>
  /\ lastResult = NoResult
  /\ filesRead = <<>>
  /\ qpc = "idle"

\* no query is made
QueryIdle == QueryStart

(***************************************************************************)
(* One streamed response of a collection: postPelican feeds the parser,    *)
(* whose onHistory writes the device block (fetchThermostatHistory) and    *)
(* updates the index (the collection script).                              *)
(***************************************************************************)
\* {"serialNo":"B-2","History":[{"timestamp":"2025-08-30T00:01"}]}
BlockFirst ==
  <<"{","\"","s","e","r","i","a","l","N","o","\"",":","\"","B","-","2","\"",
    ",","\"","H","i","s","t","o","r","y","\"",":","[","{","\"","t","i","m",
    "e","s","t","a","m","p","\"",":","\"","2","0","2","5","-","0","8","-",
    "3","0","T","0","0",":","0","1","\"","}","]","}">>

\* {"serialNo":"B-2","History":}
BlockMalformed ==
  <<"{","\"","s","e","r","i","a","l","N","o","\"",":","\"","B","-","2","\"",
    ",","\"","H","i","s","t","o","r","y","\"",":","}">>

\* {"serialNo":"B-2","History":[{"timestamp":"2025-08-30T00:02"}]}
BlockLast ==
  <<"{","\"","s","e","r","i","a","l","N","o","\"",":","\"","B","-","2","\"",
    ",","\"","H","i","s","t","o","r","y","\"",":","[","{","\"","t","i","m",
    "e","s","t","a","m","p","\"",":","\"","2","0","2","5","-","0","8","-",
    "3","0","T","0","0",":","0","2","\"","}","]","}">>

\* {"serialNo":"B-2","History":[]}
BlockUndated ==
  <<"{","\"","s","e","r","i","a","l","N","o","\"",":","\"","B","-","2","\"",
    ",","\"","H","i","s","t","o","r","y","\"",":","[","]","}">>

\* {"ThermostatHistory":[
ResponseHead ==
  <<"{","\"","T","h","e","r","m","o","s","t","a","t","H","i","s","t","o",
    "r","y","\"",":","[">>

\* the three blocks in one response, and the two well-formed ones
ResponseMalformed ==
  ResponseHead \o BlockFirst \o <<",">> \o BlockMalformed \o <<",">>
    \o BlockLast \o <<"]", "}">>

ResponseWellFormed ==
  ResponseHead \o BlockFirst \o <<",">> \o BlockLast \o <<"]", "}">>

Responses == {ResponseMalformed, ResponseWellFormed}

\* JSON.parse(jsonSlice) for the slices that parse: the two blocks; any
\* other slice of these responses that parses is an object without
\* serialNo (a record of a History array)
JsonParse(jsonSlice) ==
  IF jsonSlice = BlockFirst
  THEN [serialNo |-> <<"B", "-", "2">>,
        History |-> HistoryOf(<<Stamp(1, 1)>>, "a")]
  ELSE IF jsonSlice = BlockLast
  THEN [serialNo |-> <<"B", "-", "2">>,
        History |-> HistoryOf(<<Stamp(1, 2)>>, "b")]
  ELSE IF jsonSlice = BlockUndated
  THEN [serialNo |-> <<"B", "-", "2">>, History |-> <<>>]
  ELSE [serialNo |-> <<>>, History |-> <<>>]

\* the site of the response, and the places the stream is cut into chunks
IngestSite == "s1"
CutStep == 8
Cuts(pl) == {k \in 1..Len(pl) : k % CutStep = 0 \/ k = Len(pl)}

\* main starts and requests the response
StartIngest ==
  /\ ppc = "idle"
  /\ fedPos = 0
  /\ StartRun

\* reader.read() returns the next chunk and postPelican feeds it
IngestFeed(n) ==
  /\ run = "running"
  /\ fedPos + n \in Cuts(payload)
  /\ Feed(n)

\* the onHistory callback of fetchThermostatHistory for the block just
\* emitted: writeThermostatHistoryByDate with the index update, after
\* which feed goes on scanning
OnHistoryWrite ==
  /\ ppc = "onHistory"
  /\ run = "running"
  /\ LET entry == JsonParse(emitted[Len(emitted)])
         r == writeThermostatHistoryByDate(files, metadata, IngestSite, entry)
     IN /\ files' = r.files
        /\ metadata' = r.metadata
        /\ lastWrite' = [made |-> TRUE, siteSlug |-> IngestSite,
                         entry |-> entry, before |-> files, facts |-> r.facts,
                         again |-> /\ lastWrite.made
                                   /\ lastWrite.siteSlug = IngestSite
                                   /\ lastWrite.entry = entry,
                         prevFacts |-> lastWrite.facts]
  /\ RunScan(parser, buffer)
  /\ UNCHANGED <<payload, fedPos, chunksFed, summary>>
  /\ UNCHANGED <<savedMetadata, run, runCount, writeCount>>
  /\ UNCHANGED <<limiterVars, splitVars, queryVars, fetchVars, routeVars, raceVars>>

\* the stream ended: finalize, postPelican returns
IngestFinalize ==
  /\ run = "running"
  /\ Finalize

\* fetchThermostatHistory returned: main saves the index
IngestSave ==
  /\ ppc = "done"
  /\ SaveMetadata

\* feed threw: postPelican, fetchThermostatHistory and main reject
IngestFail ==
  /\ ppc = "threw"
  /\ FailRun

(***************************************************************************)
(* A response whose text after the target array is longer than tailLimit.  *)
(***************************************************************************)
\* {"ThermostatHistory":[{"a":1}]
LongTailHead ==
  <<"{","\"","T","h","e","r","m","o","s","t","a","t","H","i","s","t","o",
    "r","y","\"",":","[","{","\"","a","\"",":","1","}","]">>

\* ,"ThermostatHistory":[{"b":2}],"message":"ok"
LongTailAfter ==
  <<",","\"","T","h","e","r","m","o","s","t","a","t","H","i","s","t","o",
    "r","y","\"",":","[","{","\"","b","\"",":","2","}","]",",","\"","m","e",
    "s","s","a","g","e","\"",":","\"","o","k","\"">>

\* the response: the array, text that holds the key and an object again,
\* tailLimit + excess blanks, and the closing brace
TailExcess == 40
ResponseLongTail(excess) ==
  LongTailHead \o LongTailAfter
    \o [i \in 1..(tailLimit + excess) |-> " "] \o <<"}">>

\* the places that response is cut into chunks: every CutStep characters
\* near the array, and at multiples of tailLimit
TailCuts(pl) ==
  {k \in 1..Len(pl) :
     \/ k <= Len(LongTailHead) + Len(LongTailAfter) /\ k % CutStep = 0
     \/ k % tailLimit = 0
     \/ k = Len(pl)}

\* reader.read() returns the next chunk and postPelican feeds it
TailFeed(cut) ==
  /\ cut > fedPos
  /\ Feed(cut - fedPos)

(***************************************************************************)
(* fetchThermostatHistory with a stream output directory: the loop over    *)
(* the sub-spans, one postPelican call per span, the onHistory callback    *)
(* that writes each block, the re-parse of the raw response file when the  *)
(* parser emitted nothing, and the fallback write of the range.            *)
(***************************************************************************)
\* the sub-spans of the run
MaxRanges == 2

\* {"result":[
ResultHead == <<"{","\"","r","e","s","u","l","t","\"",":","[">>

\* the response bodies: two dated blocks; one block without records; the
\* text of an error page
ResponseResult == ResultHead \o ResponseWellFormed \o <<"]", "}">>

ResponseUndated ==
  ResultHead \o ResponseHead \o BlockUndated \o <<"]", "}", "]", "}">>

ErrorBody == <<"d", "e", "n", "i", "e", "d">>

\* what upstream may answer: the status, the body, and whether
\* response.body has a reader
FetchResponses ==
  {[status |-> 200, body |-> ResponseResult, reader |-> TRUE],
   [status |-> 200, body |-> ResponseUndated, reader |-> TRUE],
   [status |-> 200, body |-> ResponseResult, reader |-> FALSE],
   [status |-> 500, body |-> ErrorBody, reader |-> TRUE]}

\* response.ok (ResponseOkAlways takes every status for a success)
ResponseOkAlways(status) == TRUE

ResponseOk(status) == status >= 200 /\ status <= 299

\* JSON.parse of a whole body: whether it parses, whether the value has
\* result[0], and the ThermostatHistory array there
JsonParseBody(body) ==
  IF body = ResponseResult
  THEN [ok |-> TRUE, hasResult |-> TRUE, isArray |-> TRUE,
        entries |-> <<JsonParse(BlockFirst), JsonParse(BlockLast)>>]
  ELSE IF body = ResponseUndated
  THEN [ok |-> TRUE, hasResult |-> TRUE, isArray |-> TRUE,
        entries |-> <<JsonParse(BlockUndated)>>]
  ELSE [ok |-> JsonParses(body), hasResult |-> FALSE, isArray |-> FALSE,
        entries |-> <<>>]

\* extractHistory(payload)
extractHistory(parsed) ==
  IF ~parsed.hasResult \/ ~parsed.isArray
  THEN [threw |-> TRUE, history |-> <<>>]
  ELSE [threw |-> FALSE, history |-> parsed.entries]

\* one call of writeThermostatHistoryByDate for a block of range k that
\* came by `via`; st is [files, metadata, written, log, last]
WriteBlock(st, entry, k, via) ==
  LET r == writeThermostatHistoryByDate(st.files, st.metadata, IngestSite, entry)
  IN [files |-> r.files, metadata |-> r.metadata,
      written |-> st.written + Len(r.facts),
      log |-> Append(st.log, [range |-> k, via |-> via, entry |-> entry]),
      last |-> [made |-> TRUE, siteSlug |-> IngestSite, entry |-> entry,
                before |-> st.files, facts |-> r.facts,
                again |-> /\ st.last.made
                          /\ st.last.siteSlug = IngestSite
                          /\ st.last.entry = entry,
                prevFacts |-> st.last.facts]]

\* the blocks of an array written one after the other
RECURSIVE WriteEntries(_, _, _, _)
WriteEntries(st, entries, k, via) ==
  IF entries = <<>> THEN st
  ELSE WriteEntries(WriteBlock(st, Head(entries), k, via), Tail(entries), k, via)

\* the store as the run sees it
StoreNow ==
  [files |-> files, metadata |-> metadata, written |-> streamWritesForRange,
   log |-> writeLog, last |-> lastWrite]

\* fetchThermostatHistory rejects, and main with it
FetchRejects(st) ==
  /\ fpc' = "failed"
  /\ run' = "idle"
  /\ metadata' = EmptyMetadata
  /\ files' = st.files
  /\ lastWrite' = st.last
  /\ writeLog' = st.log
  /\ streamWritesForRange' = st.written
  /\ rangeIndex' = rangeIndex

\* the loop body after postPelican returned `parsed`: extractHistory, the
\* fallback write of the range when onHistory wrote no file, then the
\* next range
FinishRange(st, parsed) ==
  LET h == extractHistory(parsed)
      st2 == IF st.written = 0 /\ Len(h.history) > 0
             THEN [WriteEntries(st, h.history, rangeIndex + 1, "range")
                     EXCEPT !.written = 0]
             ELSE st
  IN IF h.threw
     THEN FetchRejects(st)
     ELSE /\ files' = st2.files
          /\ metadata' = st2.metadata
          /\ lastWrite' = st2.last
          /\ writeLog' = st2.log
          /\ streamWritesForRange' = st2.written
          /\ rangeIndex' = rangeIndex + 1
          /\ fpc' = IF rangeIndex + 1 = MaxRanges THEN "returned" ELSE "next"
          /\ run' = run

\* main starts and calls fetchThermostatHistory
StartFetch ==
  /\ fpc = "idle"
  /\ run = "idle"
  /\ runCount < MaxRuns
  /\ fpc' = "next"
  /\ run' = "running"
  /\ runCount' = runCount + 1
  /\ metadata' = loadMetadata(savedMetadata, TRUE)
  /\ UNCHANGED <<files, savedMetadata, writeCount, lastWrite>>
  /\ UNCHANGED <<rangeIndex, requests, streamWritesForRange, writeLog,
                 signal>>
  /\ UNCHANGED <<parserVars, limiterVars, splitVars, queryVars, routeVars, raceVars>>

\* postPelican for the next range, up to the first read of the body: a
\* status that is not a success throws; without a reader the body is
\* parsed whole and every block handed to onHistory
PostPelican(response) ==
  /\ fpc = "next"
  /\ signal = "pending"
  /\ UNCHANGED signal
  /\ requests' = Append(requests, [range |-> rangeIndex + 1,
                                   status |-> response.status,
                                   body |-> response.body])
  /\ IF ~ResponseOk(response.status)
     THEN /\ FetchRejects([StoreNow EXCEPT !.written = 0])
          /\ UNCHANGED parserVars
     ELSE IF response.reader
     THEN /\ payload' = response.body
          /\ fedPos' = 0
          /\ chunksFed' = 0
          /\ parser' = ParserInit
          /\ buffer' = <<>>
          /\ ppc' = "idle"
          /\ emitted' = <<>>
          /\ summary' = NoSummary
          /\ fpc' = "streaming"
          /\ streamWritesForRange' = 0
          /\ UNCHANGED <<rangeIndex, writeLog>>
          /\ UNCHANGED <<files, metadata, run, lastWrite>>
     ELSE LET full == JsonParseBody(response.body)
              st == [StoreNow EXCEPT !.written = 0]
          IN /\ IF ~full.ok
                THEN FetchRejects(st)
                ELSE FinishRange(
                       IF full.isArray
                       THEN WriteEntries(st, full.entries, rangeIndex + 1, "body")
                       ELSE st,
                       full)
             /\ UNCHANGED parserVars
  /\ UNCHANGED <<savedMetadata, runCount, writeCount>>
  /\ UNCHANGED <<limiterVars, splitVars, queryVars, routeVars, raceVars>>

\* reader.read() returns the next chunk and postPelican feeds it
FetchFeed(cut) ==
  /\ fpc = "streaming"
  /\ signal = "pending"
  /\ cut > fedPos
  /\ Feed(cut - fedPos)

\* (FetchOnHistoryUnawaited: feed goes on scanning before the write)
FetchOnHistoryUnawaited ==
  /\ fpc = "streaming"
  /\ ppc = "onHistory"
  /\ RunScan(parser, buffer)
  /\ UNCHANGED <<payload, fedPos, chunksFed, summary>>
  /\ UNCHANGED <<storeVars, fetchVars, limiterVars, splitVars, queryVars,
               routeVars, raceVars>>

\* the onHistory callback of fetchThermostatHistory for the block just
\* emitted, after which feed goes on scanning
FetchOnHistory ==
  /\ fpc = "streaming"
  /\ ppc = "onHistory"
  /\ LET st == WriteBlock(StoreNow, JsonParse(emitted[Len(emitted)]),
                          rangeIndex + 1, "stream")
     IN /\ files' = st.files
        /\ metadata' = st.metadata
        /\ lastWrite' = st.last
        /\ writeLog' = st.log
        /\ streamWritesForRange' = st.written
  /\ RunScan(parser, buffer)
  /\ UNCHANGED <<payload, fedPos, chunksFed, summary>>
  /\ UNCHANGED <<savedMetadata, run, runCount, writeCount>>
  /\ UNCHANGED <<rangeIndex, fpc, requests, signal>>
  /\ UNCHANGED <<limiterVars, splitVars, queryVars, routeVars, raceVars>>

\* the stream ended: finalize; when nothing was collected the raw
\* response file is parsed and its blocks handed to onHistory; postPelican
\* returns and the loop body goes on
FetchFinalize ==
  /\ fpc = "streaming"
  /\ ppc = "idle"
  /\ signal = "pending"
  /\ UNCHANGED signal
  /\ fedPos = Len(payload)
  /\ summary' = [historyFound |-> parser.historyFound,
                 historyCompleted |-> parser.historyCompleted,
                 entryCount |-> parser.entryIndex]
  /\ ppc' = "done"
  /\ LET collectedNow == [i \in 1..Len(emitted) |-> JsonParse(emitted[i])]
         full == JsonParseBody(payload)
         reparsed == Len(emitted) = 0 /\ full.ok
         st == IF reparsed /\ full.isArray
               THEN WriteEntries(StoreNow, full.entries, rangeIndex + 1, "file")
               ELSE StoreNow
         parsed == IF reparsed THEN full
                   ELSE [ok |-> TRUE, hasResult |-> TRUE, isArray |-> TRUE,
                         entries |-> collectedNow]
     IN FinishRange(st, parsed)
  /\ UNCHANGED <<payload, fedPos, chunksFed, parser, buffer, emitted>>
  /\ UNCHANGED <<savedMetadata, runCount, writeCount, requests>>
  /\ UNCHANGED <<limiterVars, splitVars, queryVars, routeVars, raceVars>>

\* feed threw: postPelican, fetchThermostatHistory and main reject
FetchThrows ==
  /\ fpc = "streaming"
  /\ ppc = "threw"
  /\ FetchRejects(StoreNow)
  /\ UNCHANGED <<savedMetadata, runCount, writeCount, requests, signal>>
  /\ UNCHANGED <<parserVars, limiterVars, splitVars, queryVars, routeVars, raceVars>>

\* the signal fires while the run is under way
SignalAbort ==
  /\ fpc \in {"next", "streaming"}
  /\ signal = "pending"
  /\ signal' = "aborted"
  /\ UNCHANGED <<rangeIndex, fpc, requests, streamWritesForRange, writeLog>>
  /\ UNCHANGED <<parserVars, storeVars, limiterVars, splitVars, queryVars,
                 routeVars, raceVars>>

\* fetch (called with a signal that has fired) or the pending reader.read()
\* of the body rejects: postPelican, fetchThermostatHistory and main reject
FetchAborted ==
  /\ signal = "aborted"
  /\ \/ fpc = "next"
     \/ fpc = "streaming" /\ ppc = "idle"
  /\ FetchRejects(StoreNow)
  /\ UNCHANGED <<savedMetadata, runCount, writeCount, requests, signal>>
  /\ UNCHANGED <<parserVars, limiterVars, splitVars, queryVars, routeVars, raceVars>>

\* fetchThermostatHistory returned: main saves the index
FetchSave ==
  /\ fpc = "returned"
  /\ fpc' = "saved"
  /\ run' = "idle"
  /\ savedMetadata' = metadata
  /\ metadata' = EmptyMetadata
  /\ UNCHANGED <<files, runCount, writeCount, lastWrite>>
  /\ UNCHANGED <<rangeIndex, requests, streamWritesForRange, writeLog,
                 signal>>
  /\ UNCHANGED <<parserVars, limiterVars, splitVars, queryVars, routeVars, raceVars>>

\* no run of fetchThermostatHistory
FetchStart ==
  /\ rangeIndex = 0
  /\ fpc = "idle"
  /\ requests = <<>>
  /\ streamWritesForRange = 0
  /\ writeLog = <<>>
  /\ signal = "pending"

FetchIdle == FetchStart

(***************************************************************************)
(* GET /api/pelican/thermostats/:clientId (pelican-thermostats.js): the    *)
(* credentials of the site come from the buildings of the client, then     *)
(* one request to the telemetry provider discovers the thermostats.        *)
(***************************************************************************)
\* String.prototype.toLowerCase on the letters the inputs use
LowerChar(c) == IF c = "S" THEN "s" ELSE IF c = "A" THEN "a" ELSE c
toLowerCase(s) == [i \in 1..Len(s) |-> LowerChar(s[i])]

\* the buildings of the directory: PelicanSubdomain, then PelicanUsername
\* and PelicanPassword: both there, no username, a blank password
Subdomains == {<<"s", "1">>, <<" ", "S", "1", " ">>, <<"s", "2">>, <<>>}
Secrets ==
  {[PelicanUsername |-> <<"a", "b">>, PelicanPassword |-> <<"p", " ">>],
   [PelicanUsername |-> <<>>, PelicanPassword |-> <<"p", " ">>],
   [PelicanUsername |-> <<"a", "b">>, PelicanPassword |-> <<" ">>]}
Buildings ==
  {[PelicanSubdomain |-> d, PelicanUsername |-> c.PelicanUsername,
    PelicanPassword |-> c.PelicanPassword] : d \in Subdomains, c \in Secrets}

\* the most buildings a client has, and the answers of the directory
MaxBuildings == 2
Directories == UNION {[1..n -> Buildings] : n \in 0..MaxBuildings}

\* the requests: siteSlug absent, in lower case, in upper case, of no
\* building; the date absent, well formed, or not
RouteSlugs == {<<>>, <<"s", "1">>, <<"S", "1">>, <<"s", "3">>}
RouteDates == {"none", "2025-08-30", "30/08/2025"}
RouteRequests == [clientId : {"", "1841"}, siteSlug : RouteSlugs, date : RouteDates]

NoRequest == [clientId |-> "", siteSlug |-> <<>>, date |-> "none"]
NoResponse == [status |-> 0, error |-> ""]

\* buildings.find(...): the index of the first building whose trimmed,
\* lower-cased PelicanSubdomain is the lower-cased siteSlug, 0 if none
RECURSIVE FindBuilding(_, _, _)
FindBuilding(buildings, siteSlug, i) ==
  IF i > Len(buildings) THEN 0
  ELSE IF toLowerCase(Trim(buildings[i].PelicanSubdomain)) = toLowerCase(siteSlug)
  THEN i
  ELSE FindBuilding(buildings, siteSlug, i + 1)

\* getCredentialsForSite(clientId, siteSlug), once getBuildings returned
\* (getCredentialsAnyPassword does not ask for a password)
getCredentialsAnyPassword(buildings, siteSlug) ==
  LET i == FindBuilding(buildings, siteSlug, 1)
  IN IF i = 0
     THEN [threw |-> "No building found for siteSlug", username |-> <<>>,
           password |-> <<>>]
     ELSE IF Trim(buildings[i].PelicanUsername) = <<>>
     THEN [threw |-> "Missing credentials for siteSlug", username |-> <<>>,
           password |-> <<>>]
     ELSE [threw |-> "", username |-> Trim(buildings[i].PelicanUsername),
           password |-> Trim(buildings[i].PelicanPassword)]

getCredentialsForSite(buildings, siteSlug) ==
  LET i == FindBuilding(buildings, siteSlug, 1)
      username == IF i = 0 THEN <<>> ELSE Trim(buildings[i].PelicanUsername)
      password == IF i = 0 THEN <<>> ELSE Trim(buildings[i].PelicanPassword)
  IN IF i = 0
     THEN [threw |-> "No building found for siteSlug", username |-> <<>>,
           password |-> <<>>]
     ELSE IF username = <<>> \/ password = <<>>
     THEN [threw |-> "Missing credentials for siteSlug", username |-> <<>>,
           password |-> <<>>]
     ELSE [threw |-> "", username |-> username, password |-> password]

\* router.get up to the call of getBuildings: the checks of clientId,
\* siteSlug and the date
RouteGet(req) ==
  /\ rpc = "idle"
  /\ routeReq' = req
  /\ IF req.clientId = ""
     THEN rpc' = "done" /\ routeRes' = [status |-> 400, error |-> "clientId is required"]
     ELSE IF req.siteSlug = <<>>
     THEN rpc' = "done" /\ routeRes' = [status |-> 400, error |-> "siteSlug is required"]
     ELSE IF req.date = "30/08/2025"
     THEN rpc' = "done" /\ routeRes' = [status |-> 400,
                                        error |-> "date must be in YYYY-MM-DD format"]
     ELSE rpc' = "lookup" /\ routeRes' = routeRes
  /\ UNCHANGED <<directory, pelicanPosts>>
  /\ UNCHANGED notRouteVars

\* getBuildings returns: getCredentialsForSite, and with the credentials
\* the request of discoverThermostats; an error is caught and answered
\* with status 500
DirectoryReturns(buildings) ==
  /\ rpc = "lookup"
  /\ directory' = [answered |-> TRUE, buildings |-> buildings]
  /\ LET c == getCredentialsForSite(buildings, routeReq.siteSlug)
     IN IF c.threw # ""
        THEN /\ rpc' = "done"
             /\ routeRes' = [status |-> 500, error |-> c.threw]
             /\ pelicanPosts' = pelicanPosts
        ELSE /\ rpc' = "posted"
             /\ routeRes' = routeRes
             /\ pelicanPosts' = Append(pelicanPosts,
                                       [siteSlug |-> routeReq.siteSlug,
                                        username |-> c.username,
                                        password |-> c.password])
  /\ UNCHANGED routeReq
  /\ UNCHANGED notRouteVars

\* getBuildings rejects: the error is caught and answered with status 500
DirectoryFails ==
  /\ rpc = "lookup"
  /\ rpc' = "done"
  /\ routeRes' = [status |-> 500, error |-> "fetch failed"]
  /\ UNCHANGED <<routeReq, directory, pelicanPosts>>
  /\ UNCHANGED notRouteVars

\* the telemetry provider answers: the serial numbers with status 200, or
\* status 500 with "Pelican request failed"
PelicanAnswers(ok) ==
  /\ rpc = "posted"
  /\ rpc' = "done"
  /\ routeRes' = IF ok THEN [status |-> 200, error |-> ""]
                 ELSE [status |-> 500, error |-> "Pelican request failed"]
  /\ UNCHANGED <<routeReq, directory, pelicanPosts>>
  /\ UNCHANGED notRouteVars

\* no request to the route
RouteStart ==
  /\ routeReq = NoRequest
  /\ directory = [answered |-> FALSE, buildings |-> <<>>]
  /\ rpc = "idle"
  /\ routeRes = NoResponse
  /\ pelicanPosts = <<>>

RouteIdle == RouteStart

\* the splitter before any call
SplitIdle ==
  SplitStart([shift |-> 0, day |-> 0],
             [start |-> [day |-> 0, sec |-> 0], end |-> [day |-> 0, sec |-> 0],
              chunkDays |-> DEFAULT_CHUNK_DAYS])

\* the parser before any response is read
ParserIdle == ParserStart(<<>>)

\* the dispatcher before any request is made
LimiterIdle == LimiterStart("dates")


(***************************************************************************)
(* Properties of the Rate-Limited Dispatcher.                              *)
(***************************************************************************)
\* the ids submitted under a key, in submission order
SubmittedUnder(key) ==
  SelectSeq([i \in 1..Len(tasks) |-> i], LAMBDA i : tasks[i].key = key)

\* the ids dispatched under a key, in dispatch order
DispatchedUnder(key) ==
  [i \in 1..Len(dispatchLog[key]) |-> dispatchLog[key][i].id]

\* C3: FIFO order.  Under every key the i-th dispatch is the i-th
\* submission: the dispatched ids are a prefix of the submitted ids, so
\* nothing is skipped, reordered or dispatched twice.
C3_FifoOrder ==
  \A key \in Keys :
    /\ Len(DispatchedUnder(key)) <= Len(SubmittedUnder(key))
    /\ DispatchedUnder(key) =
         SubSeq(SubmittedUnder(key), 1, Len(DispatchedUnder(key)))

\* two submissions were queued together under one key and both dispatched
C3_Witness ==
  \E key \in Keys :
    /\ Len(dispatchLog[key]) >= 2
    /\ ~tasks[dispatchLog[key][2].id].wokeEarly
    /\ dispatchLog[key][1].id < dispatchLog[key][2].id

\* C4: spacing.  Under every key two consecutive dispatches start at
\* least intervalMs apart, and dispatch k starts at least (k-1)*intervalMs
\* after dispatch 1.
C4_Spacing ==
  \A key \in Keys :
    \A i \in 2..Len(dispatchLog[key]) :
      /\ dispatchLog[key][i].at - dispatchLog[key][i - 1].at
           >= IntervalMs(variant, key)
      /\ dispatchLog[key][i].at - dispatchLog[key][1].at
           >= (i - 1) * IntervalMs(variant, key)

\* a submission that arrived after the queue went idle, less than
\* intervalMs after the last dispatch, has been dispatched
C4_Witness ==
  \E id \in 1..Len(tasks) :
    /\ tasks[id].wokeEarly
    /\ tasks[id].exec # "queued"
    /\ Len(dispatchLog[tasks[id].key]) >= 2

\* the tasks of a key that have been called and have not finished
Executing(key) ==
  {id \in 1..Len(tasks) : tasks[id].key = key /\ tasks[id].exec = "executing"}

\* C5: per-key serialization.  Under every key at most one dispatched
\* task is executing at any time.
C5_Serialized == \A key \in Keys : Cardinality(Executing(key)) <= 1

\* C6: a timeout frees the queue.  Every submission eventually gets a
\* result or a failure, whatever the earlier tasks of its key do.
C6_EverySubmissionSettles ==
  \A id \in 1..MaxSubmits :
    (id <= Len(tasks) /\ tasks[id].result = "pending")
      ~> (id <= Len(tasks) /\ tasks[id].result # "pending")

\* the same for the copy of the dispatcher that has the timeout
TimeoutCopySettles ==
  \A id \in 1..MaxSubmits :
    (variant = "dates" /\ id <= Len(tasks) /\ tasks[id].result = "pending")
      ~> (id <= Len(tasks) /\ tasks[id].result # "pending")

\* everything the dispatcher holds for one key
NoLimiterState ==
  [intervalMs |-> 0, lastRunMs |-> 0, queue |-> <<>>, running |-> FALSE]

KeyState(key) ==
  [present |-> key \in DOMAIN rateLimiterState,
   state |-> IF key \in DOMAIN rateLimiterState
             THEN rateLimiterState[key] ELSE NoLimiterState,
   timer |-> timer[key], inflight |-> inflight[key],
   deadline |-> deadline[key], log |-> dispatchLog[key]]

\* the key a URL is dispatched under
KeyOfUrl(url) ==
  IF url.valid /\ url.client # NoParam /\ url.client # ""
  THEN url.client ELSE GLOBAL

\* limiter states exist exactly for the keys submitted to; the latest
\* submission is filed under the key of its URL, the global key when the
\* URL has no client parameter; every dispatch is logged under the key of
\* its task; a pending timer of a key is due no later than the key's own
\* last dispatch plus its interval
KeyIsolation ==
  /\ DOMAIN rateLimiterState = {tasks[i].key : i \in 1..Len(tasks)}
  /\ tasks # <<>> => tasks[Len(tasks)].key = KeyOfUrl(lastUrl)
  /\ \A key \in Keys : \A i \in 1..Len(dispatchLog[key]) :
       tasks[dispatchLog[key][i].id].key = key
  /\ \A key \in DOMAIN rateLimiterState :
       timer[key] >= 0 =>
         timer[key] <= Max(now, rateLimiterState[key].lastRunMs
                                  + rateLimiterState[key].intervalMs)

\* no step changes what the dispatcher holds for two different keys
OneKeyPerStep ==
  \A a \in Keys : \A b \in Keys \ {a} :
    ~(KeyState(a)' # KeyState(a) /\ KeyState(b)' # KeyState(b))

\* C7: key independence.  Each key has its own lazily created limiter
\* state; a step under one key leaves every other key's state unchanged
\* and a key's dispatch is timed from that key's last dispatch alone; a
\* URL without a client parameter goes under the global key.
C7_KeyIndependence == []KeyIsolation /\ [][OneKeyPerStep]_vars

\* tasks of two keys are in flight together, one of them never finishing,
\* the other dispatched after it
C7_Witness ==
  \E a \in Keys : \E b \in Keys \ {a} :
    /\ inflight[a] # 0 /\ tasks[inflight[a]].kind = "hang"
    /\ inflight[b] # 0
    /\ dispatchLog[b][1].at > dispatchLog[a][1].at


(***************************************************************************)
(* Properties of the Range Splitter.                                       *)
(***************************************************************************)
LastSecOfDay == 24 * 3600 - 1

\* the calendar days a span touches, and its length in seconds
SpanDays(r) == r.endDateTime.day - r.startDateTime.day + 1
SpanSeconds(r) ==
  (r.endDateTime.day - r.startDateTime.day) * 24 * 3600
    + r.endDateTime.sec - r.startDateTime.sec

IsoLeq(a, b) == a.day < b.day \/ (a.day = b.day /\ a.sec <= b.sec)

CeilDiv(a, b) == (a + b - 1) \div b

\* C8: range coverage.  The spans returned by splitDateRange start at
\* start, end at end, each has start <= end, and each span after the
\* first starts at 00:00:00 of the day after the day at whose last second
\* the previous span ends: together they are [start, end] without gap or
\* overlap.
C8_RangeCoverage ==
  splitStatus = "returned" =>
    /\ Len(ranges) >= 1
    /\ ranges[1].startDateTime = splitCall.start
    /\ ranges[Len(ranges)].endDateTime = splitCall.end
    /\ \A i \in 1..Len(ranges) :
         IsoLeq(ranges[i].startDateTime, ranges[i].endDateTime)
    /\ \A i \in 2..Len(ranges) :
         /\ ranges[i - 1].endDateTime.sec = LastSecOfDay
         /\ ranges[i].startDateTime =
              [day |-> ranges[i - 1].endDateTime.day + 1, sec |-> 0]

\* a range from the middle of a day to the middle of a later day was cut
\* into three spans or more
C8_Witness ==
  /\ splitStatus = "returned"
  /\ splitCall.via = "split"
  /\ Len(ranges) >= 3
  /\ splitCall.start.sec = 12 * 3600
  /\ splitCall.end.sec = 12 * 3600

\* C9: span length bound.  Every span returned is shorter than chunkDays
\* times 24 hours and touches at most chunkDays calendar days.
C9_SpanLengthBound ==
  splitStatus = "returned" =>
    \A i \in 1..Len(ranges) :
      /\ SpanDays(ranges[i]) <= splitCall.chunkDays
      /\ SpanSeconds(ranges[i]) < splitCall.chunkDays * 24 * 3600

\* the shape C10 describes for a range of D calendar days
SpanShape ==
  LET D == splitCall.end.day - splitCall.start.day + 1
      n == Len(ranges)
  IN /\ n = CeilDiv(D, splitCall.chunkDays)
     /\ \A i \in 1..(n - 1) :
          /\ ranges[i].startDateTime.sec = 0
          /\ ranges[i].endDateTime.sec = LastSecOfDay
          /\ SpanDays(ranges[i]) = splitCall.chunkDays
     /\ ranges[n].endDateTime = splitCall.end
     /\ SpanDays(ranges[n]) <= splitCall.chunkDays

\* C10: span shape.  For a range that starts at the first instant of a
\* day and covers D days, ceil(D / chunkDays) spans are returned; all but
\* the last cover exactly chunkDays whole days, the last ends at end.
C10_SpanShape ==
  (splitStatus = "returned" /\ splitCall.start.sec = 0) => SpanShape

\* the same where no daylight-saving transition exists
NoDstSpanShape ==
  (splitStatus = "returned" /\ splitCall.start.sec = 0 /\ tz.shift = 0)
    => SpanShape

\* the span length bound for day-aligned starts without a transition
NoDstSpanLengthBound ==
  (splitStatus = "returned" /\ splitCall.start.sec = 0 /\ tz.shift = 0) =>
    \A i \in 1..Len(ranges) :
      /\ SpanDays(ranges[i]) <= splitCall.chunkDays
      /\ SpanSeconds(ranges[i]) < splitCall.chunkDays * 24 * 3600

\* 2025 calendar: the day number of a month and day of month
MonthDays2025 == <<31, 28, 31, 30, 31, 30, 31, 31, 30, 31, 30, 31>>
RECURSIVE DaysBefore(_)
DaysBefore(month) ==
  IF month = 1 THEN 0 ELSE DaysBefore(month - 1) + MonthDays2025[month - 1]
Date2025(month, dayOfMonth) == DaysBefore(month) + dayOfMonth - 1

\* the scenario 2025-01-01 .. 2025-03-06 with chunkDays = 30
SplitExampleReached ==
  /\ splitStatus = "returned"
  /\ splitCall.start = [day |-> Date2025(1, 1), sec |-> 0]
  /\ splitCall.end = [day |-> Date2025(3, 6), sec |-> LastSecOfDay]
  /\ splitCall.chunkDays = 30

SplitExample ==
  SplitExampleReached =>
    ranges =
      <<[startDateTime |-> [day |-> Date2025(1, 1), sec |-> 0],
         endDateTime |-> [day |-> Date2025(1, 30), sec |-> LastSecOfDay]],
        [startDateTime |-> [day |-> Date2025(1, 31), sec |-> 0],
         endDateTime |-> [day |-> Date2025(3, 1), sec |-> LastSecOfDay]],
        [startDateTime |-> [day |-> Date2025(3, 2), sec |-> 0],
         endDateTime |-> [day |-> Date2025(3, 6), sec |-> LastSecOfDay]]>>


(***************************************************************************)
(* Validation of the range.                                                *)
(***************************************************************************)
IsoLater(a, b) == a.day > b.day \/ (a.day = b.day /\ a.sec > b.sec)

\* a range that is no valid input: a missing or invalid date, a start
\* later than the end, or fewer than one day per span
BadRange(args) ==
  \/ ~IsDate(args.start)
  \/ ~IsDate(args.end)
  \/ args.chunkDays < 1
  \/ IsoLater(args.start, args.end)

RunRejects(args) ==
  \/ args.start = InvalidDate
  \/ args.end = InvalidDate
  \/ args.chunkDays < 1
  \/ args.chunkDays > MAX_RANGE_DAYS
  \/ (IsDate(args.start) /\ IsDate(args.end) /\ args.start.day > args.end.day)

DefaultedRunReached ==
  /\ splitCall.via = "fetch"
  /\ splitArgs.start = Missing
  /\ requested # <<>>

(***************************************************************************)
(* Properties of the Partitioned Store Writer and the Metadata Index.      *)
(***************************************************************************)
\* C12: partition invariant.  Every partition file holds records with
\* pairwise distinct timestamps, in ascending order of timestamp, each of
\* the calendar date of the partition.
C12_PartitionInvariant ==
  \A p \in DOMAIN files :
    /\ \A i \in 1..Len(files[p]) :
         extractDateFromTimestamp(files[p][i].timestamp) = p.date
    /\ \A i \in 1..(Len(files[p]) - 1) :
         localeCompare(files[p][i].timestamp, files[p][i + 1].timestamp) < 0

\* a partition holds two records that arrived in the opposite order
C12_Witness ==
  \E p \in DOMAIN files :
    /\ Len(files[p]) >= 2
    /\ files[p][1].payload.batch = files[p][2].payload.batch
    /\ files[p][1].payload.pos > files[p][2].payload.pos

\* the paths the latest write touched, and the records it brought for one
TouchedPaths == {lastWrite.facts[i].filePath : i \in 1..Len(lastWrite.facts)}

BatchFor(p) ==
  SelectSeq(lastWrite.entry.History,
            LAMBDA r : extractDateFromTimestamp(r.timestamp) = p.date)

HeldBefore(p) == IF p \in DOMAIN lastWrite.before THEN lastWrite.before[p] ELSE <<>>

Elems(s) == {s[i] : i \in 1..Len(s)}

DevicesOf(md) ==
  UNION {{[siteSlug |-> s, serialNo |-> d] : d \in DOMAIN md.sites[s].devices} :
           s \in DOMAIN md.sites}

DeviceOf(md, dev) == md.sites[dev.siteSlug].devices[dev.serialNo]

TotalsAgree(md) ==
  \A dev \in DevicesOf(md) :
    DeviceOf(md, dev).totalEntries
      = SumEntryCounts(DeviceOf(md, dev).dateRanges)

\* C15: index totals.  In the index in memory and in the saved one, every
\* device's totalEntries is the sum of the entryCount of its date entries.
C15_IndexTotals == TotalsAgree(metadata) /\ TotalsAgree(savedMetadata)

\* a device has two date entries, one of them replaced by a later write
C15_Witness ==
  /\ lastWrite.made
  /\ \E dev \in DevicesOf(metadata) :
       /\ Len(DeviceOf(metadata, dev).dateRanges) >= 2
       /\ \E p \in TouchedPaths :
            /\ p.site = dev.siteSlug
            /\ HeldBefore(p) # <<>>
            /\ Len(files[p]) > Len(HeldBefore(p))

\* the index that answers queries: the one in memory while a collection
\* runs, the saved one otherwise
CurrentIndex == IF run = "running" THEN metadata ELSE savedMetadata

\* C16: index and partitions agree.  Every partition file has an index
\* entry of its date under its site and device, whose filePath is the
\* file and whose entryCount is the number of records in the file; no
\* index entry has another count than its file.
C16_IndexMatchesPartitions ==
  /\ \A p \in DOMAIN files :
       \E dev \in DevicesOf(CurrentIndex) :
         /\ dev.siteSlug = p.site
         /\ sanitizeFileSegment(dev.serialNo, Unknown) = p.segment
         /\ \E e \in Elems(DeviceOf(CurrentIndex, dev).dateRanges) :
              e.date = p.date /\ PathResolve(BaseDir, e.filePath) = p
                /\ e.entryCount = Len(files[p])
  /\ \A dev \in DevicesOf(CurrentIndex) :
       \A e \in Elems(DeviceOf(CurrentIndex, dev).dateRanges) :
         /\ PathResolve(BaseDir, e.filePath) \in DOMAIN files
         /\ e.entryCount = Len(files[PathResolve(BaseDir, e.filePath)])

\* the same for the index in memory while the first collection runs, for
\* devices whose path segment no other device of the site shares
InMemoryIndexMatches ==
  (runCount = 1 /\ run = "running") =>
    \A dev \in DevicesOf(metadata) :
      (\A other \in DevicesOf(metadata) :
         (other # dev /\ other.siteSlug = dev.siteSlug) =>
           sanitizeFileSegment(other.serialNo, Unknown)
             # sanitizeFileSegment(dev.serialNo, Unknown))
      => \A e \in Elems(DeviceOf(metadata, dev).dateRanges) :
           /\ PathResolve(BaseDir, e.filePath) \in DOMAIN files
           /\ e.entryCount = Len(files[PathResolve(BaseDir, e.filePath)])

\* a collection wrote a partition and ended without saving the index
C16_FailedRunReached ==
  /\ run = "idle"
  /\ files # <<>>
  /\ savedMetadata = EmptyMetadata

(***************************************************************************)
(* Properties of the Range Query Engine.                                   *)
(***************************************************************************)
\* the records the candidate partitions hold, in the order of the candidates
RECURSIVE CandidateRecords(_, _)
CandidateRecords(fs, list) ==
  IF list = <<>> THEN <<>>
  ELSE (IF Head(list).path \in DOMAIN fs THEN fs[Head(list).path] ELSE <<>>)
         \o CandidateRecords(fs, Tail(list))

\* the number K of those records
K == Len(CandidateRecords(files, candidates))

\* C17: pagination completeness.  Asking for page 0, 1, 2, ... with one
\* page size until a page says hasMore = false ends after at most
\* K / limit + 1 pages, and the pages returned, concatenated, are the K
\* records of the candidate partitions, each once, in ascending order of
\* timestamp.
C17_PaginationCompleteness ==
  /\ qpc \in {"paging", "done"} =>
       /\ nextPage <= (K \div limit) + 1
       /\ nextPage < MaxPages
  /\ qpc = "done" =>
       /\ collected = CandidateRecords(files, candidates)
       /\ \A i \in 1..(Len(collected) - 1) :
            localeCompare(collected[i].timestamp,
                          collected[i + 1].timestamp) < 0

\* three records of two partitions were returned in more than one page
C17_Witness ==
  /\ qpc = "done"
  /\ Len(candidates) >= 2
  /\ Len(collected) >= 3
  /\ limit = 2

\* C18: meaning of hasMore.  A result says hasMore = true only if its page
\* holds exactly limit records and the candidate partitions hold at least
\* one record after the page.
C18_HasMoreMeaning ==
  (qpc \in {"paging", "done"} /\ lastResult.pagination.hasMore) =>
    /\ Len(lastResult.data) = limit
    /\ K > (lastResult.pagination.page + 1) * limit

\* what hasMore = true does tell: the page is full
HasMoreOnlyOnFullPage ==
  (qpc \in {"paging", "done"} /\ lastResult.pagination.hasMore) =>
    Len(lastResult.data) = limit

\* the last page of a store whose K is a multiple of limit was returned
C18_ExactMultipleReached ==
  /\ qpc = "paging"
  /\ K > 0
  /\ K = (lastResult.pagination.page + 1) * limit

\* the index entries the query asks for, by day number
ExpectedCandidates ==
  LET q == queryArgs
      md == savedMetadata
  IN IF \/ q.siteSlug = "" \/ q.serialNo = <<>>
        \/ q.startDate.text # "date" \/ q.endDate.text # "date"
        \/ [siteSlug |-> q.siteSlug, serialNo |-> q.serialNo]
             \notin DevicesOf(md)
     THEN <<>>
     ELSE LET entries ==
                SelectSeq(DeviceOf(md, q).dateRanges,
                          LAMBDA e : q.startDate.day <= e.date
                                       /\ e.date <= q.endDate.day)
          IN [i \in 1..Len(entries) |->
                [path |-> [dir |-> BaseDir, site |-> entries[i].filePath.site,
                           segment |-> entries[i].filePath.segment,
                           date |-> entries[i].filePath.date],
                 date |-> entries[i].date,
                 entryCount |-> entries[i].entryCount]]

\* C19: range selection.  findFilesForQuery returns the index entries of
\* the device asked for whose date lies between start and end, both
\* included, in ascending order of date, with the counts the index holds;
\* nothing of another site or device; nothing when the site or the device
\* is unknown or an argument is missing.
C19_RangeSelection ==
  qpc # "idle" =>
    /\ candidates = ExpectedCandidates
    /\ \A i \in 1..(Len(candidates) - 1) :
         candidates[i].date < candidates[i + 1].date
    /\ \A i \in 1..Len(candidates) :
         /\ candidates[i].path.site = queryArgs.siteSlug
         /\ candidates[i].path.segment
              = sanitizeFileSegment(queryArgs.serialNo, Unknown)

\* a query for one day of a device that has two days in the index
C19_Witness ==
  /\ qpc = "found"
  /\ queryArgs.startDate = queryArgs.endDate
  /\ Len(candidates) = 1
  /\ [siteSlug |-> queryArgs.siteSlug, serialNo |-> queryArgs.serialNo]
       \in DevicesOf(savedMetadata)
  /\ Len(DeviceOf(savedMetadata, queryArgs).dateRanges) = 2

\* a candidate whose count in the index is not the count of its file
C19_IndexOnlyReached ==
  /\ qpc = "found"
  /\ \E i \in 1..Len(candidates) :
       candidates[i].entryCount # Len(files[candidates[i].path])

(***************************************************************************)
(* Properties of a collection reading a streamed response.                 *)
(***************************************************************************)
\* the records of a device block are in the partition of their date, and
\* the index md has an entry of that date with the count of the file
Written(entry, md) ==
  \A i \in 1..Len(entry.History) :
    LET r == entry.History[i]
        p == TargetPath(BaseDir, IngestSite,
                        sanitizeFileSegment(entry.serialNo, Unknown),
                        extractDateFromTimestamp(r.timestamp))
        dev == [siteSlug |-> IngestSite, serialNo |-> entry.serialNo]
    IN (entry.serialNo # <<>> /\ r.timestamp # NoTimestamp) =>
         /\ p \in DOMAIN files
         /\ \E x \in Elems(files[p]) : x.timestamp = r.timestamp
         /\ run = "running" =>
              /\ dev \in DevicesOf(md)
              /\ \E e \in Elems(DeviceOf(md, dev).dateRanges) :
                   /\ e.date = p.date
                   /\ PathResolve(BaseDir, e.filePath) = p
                   /\ e.entryCount = Len(files[p])

\* C20: a parse error aborts the stream without rollback.  Only slices
\* that parse are emitted; when a slice does not parse feed throws, and
\* from then on nothing is emitted, no file and no index changes but by
\* the end of the process, finalize is not reached and the index is not
\* saved; the blocks emitted before are in their partitions and, while
\* the process lives, in the index in memory.
C20_ParseErrorAborts ==
  /\ [](\A i \in 1..Len(emitted) : JsonParses(emitted[i]))
  /\ [](ppc = "threw" =>
          /\ summary = NoSummary
          /\ savedMetadata = EmptyMetadata
          /\ \A i \in 1..Len(emitted) : Written(JsonParse(emitted[i]), metadata))
  /\ [][ppc = "threw" =>
          /\ ppc' = "threw"
          /\ emitted' = emitted
          /\ files' = files
          /\ savedMetadata' = savedMetadata
          /\ summary' = summary
          /\ (metadata' = metadata \/ run' = "idle")]_vars

\* feed threw at the malformed block, after the first block was written
\* and before the last one was read
C20_Witness ==
  /\ ppc = "threw"
  /\ payload = ResponseMalformed
  /\ emitted = <<BlockFirst>>
  /\ files # <<>>
  /\ run = "idle"

\* every slice emitted from these responses is one of their two blocks
EmittedAreBlocks ==
  \A i \in 1..Len(emitted) : emitted[i] \in {BlockFirst, BlockLast}

DatedRecords ==
  {r \in Elems(lastWrite.entry.History) : r.timestamp # NoTimestamp}

PartitionOf(r) ==
  [dir |-> BaseDir, site |-> lastWrite.siteSlug,
   segment |-> sanitizeFileSegment(lastWrite.entry.serialNo, Unknown),
   date |-> r.timestamp.date]

C28_NothingWrittenReached ==
  /\ lastWrite.made
  /\ lastWrite.entry.serialNo = <<>>
  /\ lastWrite.entry.History # <<>>

(***************************************************************************)
(* Properties of the drain loop of the Rate-Limited Dispatcher.            *)
(***************************************************************************)
\* the drain step of a key: its pending timer or its awaited task
TimerPending(key) == timer[key] >= 0
TaskAwaited(key) == inflight[key] # 0

DrainInvariant(key) ==
  LET st == rateLimiterState[key]
  IN /\ ~(TimerPending(key) /\ TaskAwaited(key))
     /\ st.running <=> (TimerPending(key) \/ TaskAwaited(key))
     /\ Len(st.queue) > 0 => st.running
     /\ TimerPending(key) => Len(st.queue) > 0

\* a timer is armed only when the key has no drain step, and a submit that
\* finds the loop stopped arms it
DrainStep(key) ==
  /\ (timer'[key] # timer[key] /\ timer'[key] >= 0) =>
       (~TimerPending(key) /\ inflight'[key] = 0)
  /\ ((key \notin DOMAIN rateLimiterState \/ ~rateLimiterState[key].running)
        /\ Len(rateLimiterState'[key].queue) > 0) =>
       (timer'[key] >= 0 /\ rateLimiterState'[key].running)

\* C24: drain-loop invariants.  For every key: never a pending timer and
\* an awaited task at once; running holds exactly while one of them
\* exists; a non-empty queue means running; a pending timer means a
\* non-empty queue; no second timer is armed; a submit that finds the
\* loop stopped restarts it.
C24_DrainLoop ==
  /\ [](\A key \in DOMAIN rateLimiterState : DrainInvariant(key))
  /\ [][\A key \in DOMAIN rateLimiterState' : DrainStep(key)]_vars

\* a submission waits in the queue while a task of its key is awaited
C24_Witness ==
  \E key \in DOMAIN rateLimiterState :
    /\ TaskAwaited(key)
    /\ Len(rateLimiterState[key].queue) > 0
    /\ rateLimiterState[key].running

\* the loop stopped on an empty queue and a later submit started it again
C24_RestartReached ==
  \E key \in DOMAIN rateLimiterState :
    /\ Len(dispatchLog[key]) = 1
    /\ tasks[dispatchLog[key][1].id].exec = "finished"
    /\ TimerPending(key)
    /\ Len(tasks) = 2
    /\ tasks[2].key = key

\* the promise of submission id is settled in this step
Settled(id) == tasks[id].result = "pending" /\ tasks'[id].result # "pending"

\* C25: result routing.  A promise is settled once and only after its own
\* task was called, by the step that ends the wait for that task, and no
\* other promise changes in that step; after a failure as after a
\* success the loop arms the timer for the next queued item.
C25_ResultRouting ==
  [][\A id \in 1..Len(tasks) :
       /\ tasks[id].result # "pending" => tasks'[id].result = tasks[id].result
       /\ Settled(id) =>
            /\ inflight[tasks[id].key] = id
            /\ tasks[id].exec = "executing"
            /\ \A other \in 1..Len(tasks) :
                 other # id => tasks'[other].result = tasks[other].result
            /\ Len(rateLimiterState[tasks[id].key].queue) > 0 =>
                 /\ timer'[tasks[id].key] >= 0
                 /\ rateLimiterState'[tasks[id].key].queue
                      = rateLimiterState[tasks[id].key].queue]_vars

\* a task failed while another submission of its key was queued, and that
\* one was dispatched and resolved
C25_Witness ==
  /\ Len(tasks) = 2
  /\ tasks[1].key = tasks[2].key
  /\ tasks[1].result = "rejected"
  /\ tasks[2].result = "resolved"
  /\ \E key \in Keys : Len(dispatchLog[key]) = 2

(***************************************************************************)
(* Properties of a run of fetchThermostatHistory over its sub-spans.       *)
(***************************************************************************)
\* upstream answered with a status outside 200..299
NonSuccess(status) == status < 200 \/ status > 299

\* the step sends a request that upstream answers with such a status
FailedRequestStep ==
  /\ Len(requests') = Len(requests) + 1
  /\ NonSuccess(requests'[Len(requests')].status)

\* a failed request fails the run at once, and a failed run does nothing
AbortStep ==
  /\ FailedRequestStep =>
      /\ fpc' = "failed"
      /\ run' = "idle"
      /\ files' = files
      /\ writeLog' = writeLog
      /\ savedMetadata' = savedMetadata
  /\ fpc = "failed" =>
      /\ fpc' = "failed"
      /\ requests' = requests
      /\ files' = files
      /\ writeLog' = writeLog
      /\ savedMetadata' = savedMetadata

\* C21: a transport error aborts the whole run.  Each sub-span is requested
\* at most once and in order, and no request follows one that upstream
\* answered with a non-success status; the step of such an answer fails
\* the run and writes nothing; a failed run sends no further request,
\* writes nothing more, and leaves every partition as it was.
C21_TransportErrorAborts ==
  /\ [](/\ \A i \in 1..Len(requests) : requests[i].range = i
        /\ \A i \in 1..(Len(requests) - 1) : ~NonSuccess(requests[i].status)
        /\ (requests # <<>> /\ NonSuccess(requests[Len(requests)].status))
             => fpc = "failed")
  /\ [][AbortStep]_vars

\* the second sub-span was answered with status 500 after the blocks of
\* the first were written: the run failed, the partitions are there
C21_Witness ==
  /\ fpc = "failed"
  /\ Len(requests) = 2
  /\ requests[2].status = 500
  /\ files # <<>>
  /\ writeLog # <<>>
  /\ \A i \in 1..Len(writeLog) : writeLog[i].range = 1
  /\ savedMetadata = EmptyMetadata

\* the first sub-span was answered with status 500: the second is never
\* requested
C21_FirstSpanFailsReached ==
  /\ fpc = "failed"
  /\ Len(requests) = 1
  /\ rangeIndex = 0
  /\ MaxRanges > 1
  /\ files = <<>>

\* the blocks of the response to request k that have a serial and at least
\* one dated record
DatedBlocks(k) ==
  LET entries == JsonParseBody(requests[k].body).entries
  IN {entries[i] : i \in {n \in 1..Len(entries) :
        /\ entries[n].serialNo # <<>>
        /\ \E m \in 1..Len(entries[n].History) :
             extractDateFromTimestamp(entries[n].History[m].timestamp) # NoDate}}

\* the blocks of range k handed to the writer
HandedToWriter(k) ==
  {writeLog[i].entry : i \in {n \in 1..Len(writeLog) : writeLog[n].range = k}}

\* C29: no device block is lost.  Once the loop has finished a sub-span
\* whose request succeeded, every block of its response that has a serial
\* and a dated record was handed to the writer.
C29_NoBlockLost ==
  \A k \in 1..rangeIndex : DatedBlocks(k) \subseteq HandedToWriter(k)

\* a sub-span was finished without error after the parser emitted the
\* first block of the response only
C29_PartialRangeReached ==
  /\ rangeIndex >= 1
  /\ fpc \in {"next", "returned"}
  /\ ppc = "done"
  /\ Len(emitted) = 1
  /\ payload = ResponseResult

\* the three paths: a block written from the stream, from the raw
\* response file, and by the fallback of the range
C29_PathsReached ==
  /\ \E i \in 1..Len(writeLog) : writeLog[i].via = "stream"
  /\ \E i \in 1..Len(writeLog) : writeLog[i].via = "file"
  /\ \E i \in 1..Len(writeLog) : writeLog[i].via = "range"

\* the blocks of range k that onHistory wrote from the stream, in order
StreamWrites(k) ==
  SelectSeq(writeLog, LAMBDA w : w.range = k /\ w.via = "stream")

\* the blocks emitted whose write has not completed
WritesInProgress ==
  IF fpc = "streaming"
  THEN Len(emitted) - Len(StreamWrites(rangeIndex + 1)) ELSE 0

\* the order of the requests and the writes in every state
RunOrder ==
  /\ \A i \in 1..Len(requests) : requests[i].range = i
  /\ \A i \in 1..Len(writeLog) :
       /\ writeLog[i].range <= Len(requests)
       /\ i > 1 => writeLog[i - 1].range <= writeLog[i].range
  /\ WritesInProgress \in {0, 1}
  /\ fpc = "streaming" =>
       /\ WritesInProgress = 1 <=> ppc = "onHistory"
       /\ \A i \in 1..Len(StreamWrites(rangeIndex + 1)) :
            StreamWrites(rangeIndex + 1)[i].entry = JsonParse(emitted[i])

\* the order of the steps
RunOrderStep ==
  /\ requests' # requests =>
       /\ Len(requests') = Len(requests) + 1
       /\ rangeIndex = Len(requests)
       /\ WritesInProgress = 0
       /\ ppc # "onHistory"
  /\ Len(emitted') > Len(emitted) =>
       /\ Len(emitted') = Len(emitted) + 1
       /\ Len(StreamWrites(rangeIndex + 1)') = Len(emitted)
  /\ \A i \in 1..Len(writeLog') :
       i > Len(writeLog) => writeLog'[i].range = Len(requests')
  /\ \A i \in 1..Len(writeLog) :
       i <= Len(writeLog') /\ writeLog'[i] = writeLog[i]

\* C30: ordering inside one run.  The sub-spans are requested one at a
\* time in ascending order, a request is sent only when no write is in
\* progress and every earlier span is finished; a block is emitted only
\* when every block emitted before it in the response has been written,
\* in emission order; never two writes are in progress; the writes are
\* made in sub-span order, each while its span is the latest requested.
C30_RunOrdering == []RunOrder /\ [][RunOrderStep]_vars

\* both sub-spans were streamed: two blocks written for the first, then
\* blocks for the second
C30_Witness ==
  /\ fpc = "returned"
  /\ Len(requests) = MaxRanges
  /\ Len(StreamWrites(1)) = 2
  /\ Len(StreamWrites(2)) >= 1

(***************************************************************************)
(* Properties of the thermostats route.                                    *)
(***************************************************************************)
\* the buildings of the directory that match the site of the request
Matching ==
  {i \in 1..Len(directory.buildings) :
     toLowerCase(Trim(directory.buildings[i].PelicanSubdomain))
       = toLowerCase(routeReq.siteSlug)}

\* a secret that is absent, empty or blank
Lacks(secret) == \A i \in 1..Len(secret) : secret[i] = " "

\* the directory has no building of the site, or the building it finds
\* first lacks the username or the password
NoCredentials ==
  \/ Matching = {}
  \/ LET i == CHOOSE i \in Matching : \A j \in Matching : i <= j
     IN \/ Lacks(directory.buildings[i].PelicanUsername)
        \/ Lacks(directory.buildings[i].PelicanPassword)

CredentialErrors ==
  {"No building found for siteSlug", "Missing credentials for siteSlug"}

\* C23: a credential error precedes any fetch.  No request goes to the
\* telemetry provider before the directory answered; when the directory
\* has no building of the site, or that building lacks a username or a
\* password, the call is answered with a credential error and no request
\* was sent to the telemetry provider.
C23_CredentialErrorFirst ==
  /\ ~directory.answered => pelicanPosts = <<>>
  /\ (directory.answered /\ NoCredentials) =>
       /\ rpc = "done"
       /\ routeRes.status = 500
       /\ routeRes.error \in CredentialErrors
       /\ pelicanPosts = <<>>

\* the building of the site has a username and a blank password
C23_Witness ==
  /\ directory.answered
  /\ Matching # {}
  /\ \A i \in Matching :
       /\ ~Lacks(directory.buildings[i].PelicanUsername)
       /\ Lacks(directory.buildings[i].PelicanPassword)
       /\ directory.buildings[i].PelicanPassword # <<>>
  /\ routeRes.error = "Missing credentials for siteSlug"
  /\ pelicanPosts = <<>>

\* the directory has buildings, none of the site
C23_NoBuildingReached ==
  /\ directory.answered
  /\ directory.buildings # <<>>
  /\ Matching = {}
  /\ routeRes.error = "No building found for siteSlug"
  /\ pelicanPosts = <<>>

\* the building of the site, found whatever the case of the letters, has
\* both secrets: one request is sent with them, trimmed
C23_CredentialsFoundReached ==
  /\ directory.answered
  /\ ~NoCredentials
  /\ routeReq.siteSlug = <<"S", "1">>
  /\ Len(pelicanPosts) = 1
  /\ pelicanPosts[1].password = <<"p">>
  /\ routeRes.status = 200

(***************************************************************************)
(* Properties of the Metadata Index under updates.                         *)
(***************************************************************************)
\* the date entries of every device are one per date, ascending by date
DatesUniqueSorted(md) ==
  \A dev \in DevicesOf(md) :
    LET r == DeviceOf(md, dev).dateRanges
    IN \A i \in 1..Len(r) : \A j \in 1..Len(r) : i < j => r[i].date < r[j].date

\* the device the write of the step updated
WrittenDevice ==
  [siteSlug |-> lastWrite'.siteSlug, serialNo |-> lastWrite'.entry.serialNo]

\* what a write does to the index in memory: every other device and site
\* stays as it was; each date reported has one entry, with the count and
\* the path reported last for it; the other entries of the device stay;
\* applying a reported fact again changes nothing
IndexUpdateStep ==
  (run = "running" /\ run' = "running" /\ lastWrite' # lastWrite) =>
    /\ \A dev \in DevicesOf(metadata) :
         dev # WrittenDevice =>
           dev \in DevicesOf(metadata') /\ DeviceOf(metadata', dev) = DeviceOf(metadata, dev)
    /\ \A dev \in DevicesOf(metadata') :
         dev \in DevicesOf(metadata) \/ (dev = WrittenDevice /\ lastWrite'.facts # <<>>)
    /\ \A i \in 1..Len(lastWrite'.facts) :
         LET f == lastWrite'.facts[i]
             r == DeviceOf(metadata', WrittenDevice).dateRanges
         IN /\ Cardinality({n \in 1..Len(r) : r[n].date = f.date}) = 1
            /\ \E n \in 1..Len(r) :
                 r[n] = [date |-> f.date, entryCount |-> f.entryCount,
                         filePath |-> PathRelative(BaseDir, f.filePath)]
            /\ updateMetadataForEntry(metadata', f, BaseDir) = metadata'
    /\ WrittenDevice \in DevicesOf(metadata) =>
         \A e \in Elems(DeviceOf(metadata, WrittenDevice).dateRanges) :
           \/ \E i \in 1..Len(lastWrite'.facts) : lastWrite'.facts[i].date = e.date
           \/ e \in Elems(DeviceOf(metadata', WrittenDevice).dateRanges)

\* C34: index entry uniqueness and order.  In the index in memory and in
\* the saved one every device has at most one entry per date and its
\* entries ascend by date; an update replaces the entry of its date or
\* inserts one, leaves every other device and site unchanged, and applied
\* again gives the same index.
C34_IndexEntries ==
  /\ [](DatesUniqueSorted(metadata) /\ DatesUniqueSorted(savedMetadata))
  /\ [][IndexUpdateStep]_vars

\* a device got the entry of an earlier date after that of a later one,
\* next to another device of the index, and an entry was replaced
C34_Witness ==
  /\ run = "running"
  /\ lastWrite.made
  /\ Len(lastWrite.facts) = 2
  /\ lastWrite.facts[1].date > lastWrite.facts[2].date
  /\ Cardinality(DevicesOf(metadata)) >= 2
  /\ Len(DeviceOf(metadata, [siteSlug |-> lastWrite.siteSlug,
                             serialNo |-> lastWrite.entry.serialNo]).dateRanges) = 2

\* a write replaced the entry of a date the device had
C34_ReplacedReached ==
  /\ run = "running"
  /\ lastWrite.made
  /\ \E p \in TouchedPaths : HeldBefore(p) # <<>> /\ Len(files[p]) > Len(HeldBefore(p))

\* the page of the latest result, and the records of the candidates
PageOf == lastResult.pagination.page
R == CandidateRecords(files, candidates)

\* C35: page content.  A result for page p with page size s holds the
\* records of the candidate partitions, concatenated in candidate order,
\* from position p*s up to min((p+1)*s, |R|) - 1 (counted from 0), in
\* that order; totalReturned is their number; a page beyond the end holds
\* none.
C35_PageContent ==
  qpc \in {"paging", "done"} =>
    /\ lastResult.pagination.limit = limit
    /\ PageOf = nextPage - 1
    /\ lastResult.data
         = SubSeq(R, PageOf * limit + 1, Min((PageOf + 1) * limit, Len(R)))
    /\ lastResult.pagination.totalReturned = Len(lastResult.data)
    /\ PageOf * limit >= Len(R) => lastResult.data = <<>>

\* the second page of a query with page size 2: the first partition was
\* skipped whole and the page holds the record of the second
C35_Witness ==
  /\ qpc \in {"paging", "done"}
  /\ PageOf = 1
  /\ limit = 2
  /\ Len(filesRead) = 2
  /\ filesRead[1] \in DOMAIN files
  /\ filesRead[2] \in DOMAIN files
  /\ Len(files[filesRead[1]]) = 2
  /\ lastResult.data = files[filesRead[2]]
  /\ lastResult.data # <<>>

\* a first page took its records from two partitions
C35_TwoPartitionsReached ==
  /\ qpc \in {"paging", "done"}
  /\ PageOf = 0
  /\ Len(filesRead) = 2
  /\ filesRead[1] \in DOMAIN files
  /\ Len(files[filesRead[1]]) >= 1
  /\ Len(lastResult.data) > Len(files[filesRead[1]])

\* a page beyond the last record was asked for and came back empty
C35_BeyondEndReached ==
  /\ qpc = "done"
  /\ Len(R) > 0
  /\ PageOf * limit >= Len(R)
  /\ lastResult.data = <<>>

\* C36: read minimality.  The files a queryFiles call reads are the
\* candidates from the first on, in order, and a file is read only if the
\* candidates before it hold fewer records than the page needs to be
\* full: no file after the one that filled the page is opened.
C36_ReadMinimality ==
  qpc \in {"paging", "done"} =>
    /\ Len(filesRead) <= Len(candidates)
    /\ \A i \in 1..Len(filesRead) :
         /\ filesRead[i] = candidates[i].path
         /\ Len(CandidateRecords(files, SubSeq(candidates, 1, i - 1)))
              < (PageOf + 1) * limit

\* the page was full before the last candidates were read
C36_Witness ==
  /\ qpc \in {"paging", "done"}
  /\ Len(lastResult.data) = limit
  /\ filesRead # <<>>
  /\ Len(filesRead) < Len(candidates)
  /\ \E i \in (Len(filesRead) + 1)..Len(candidates) :
       candidates[i].path \in DOMAIN files

(***************************************************************************)
(* Termination of the loop of splitDateRange.                              *)
(***************************************************************************)
\* C39: split terminates.  For arguments splitDateRange accepts, the loop
\* ends within one iteration per calendar day of the range and one more
\* test; at least one span is returned, exactly one when start = end, at
\* most one per calendar day; every span after the first starts strictly
\* later than the span before it starts and than the span before it ends,
\* and the last span ends at end.
C39_SplitTerminates ==
  /\ splitStatus # "looping"
  /\ splitStatus = "returned" =>
       /\ Len(ranges) >= 1
       /\ Len(ranges) <= splitCall.end.day - splitCall.start.day + 1
       /\ splitCall.start = splitCall.end => Len(ranges) = 1
       /\ \A i \in 2..Len(ranges) :
            /\ IsoLater(ranges[i].startDateTime, ranges[i - 1].startDateTime)
            /\ IsoLater(ranges[i].startDateTime, ranges[i - 1].endDateTime)
       /\ ranges[Len(ranges)].endDateTime = splitCall.end

\* a range over the daylight-saving change was cut into spans of one day
C39_Witness ==
  /\ splitStatus = "returned"
  /\ splitCall.chunkDays = 1
  /\ Len(ranges) >= 3
  /\ tz.day # 0
  /\ splitCall.start.day < tz.day
  /\ splitCall.end.day > tz.day

\* start = end: one span
C39_OneInstantReached ==
  /\ splitStatus = "returned"
  /\ splitCall.start = splitCall.end
  /\ Len(ranges) = 1
  /\ ranges[1].startDateTime = ranges[1].endDateTime

(***************************************************************************)
(* The saved index during and after a collection run.                      *)
(***************************************************************************)
\* the saved index has an entry for partition file p
SavedEntryFor(p) ==
  \E dev \in DevicesOf(savedMetadata) :
    /\ dev.siteSlug = p.site
    /\ \E e \in Elems(DeviceOf(savedMetadata, dev).dateRanges) :
         e.date = p.date /\ PathResolve(BaseDir, e.filePath) = p

\* C32: the index is persisted per partition write.  At every point of a
\* collection run, and after a run that failed, the saved index has an
\* entry for every partition file written so far.
C32_IndexPersistedPerWrite ==
  \A p \in DOMAIN files : SavedEntryFor(p)

\* a run wrote the blocks of its first sub-span and failed at the second:
\* the saved index is still empty
C32_AbortedRunReached ==
  /\ fpc = "failed"
  /\ Len(requests) = 2
  /\ DOMAIN files # {}
  /\ \A p \in DOMAIN files : ~SavedEntryFor(p)
  /\ savedMetadata = EmptyMetadata

\* what the code does keep: once main has saved the index, every partition
\* file has its entry
SavedAtEndOfRun ==
  fpc = "saved" => \A p \in DOMAIN files : SavedEntryFor(p)

(***************************************************************************)
(* The saved index over runs.                                              *)
(***************************************************************************)
\* the (device, date) pairs the index md has an entry for
EntryKeys(md) ==
  UNION {{[dev |-> dev, date |-> e.date] :
            e \in Elems(DeviceOf(md, dev).dateRanges)} : dev \in DevicesOf(md)}

EntriesKeptStep ==
  /\ EntryKeys(savedMetadata) \subseteq EntryKeys(savedMetadata')
  /\ (run = "idle" /\ run' = "running" /\ savedMetadata = EmptyMetadata)
       => metadata' = [sites |-> <<>>, indexVersion |-> "1.0"]

\* C33: index entries are never lost.  Over load / update / save cycles an
\* entry of the saved index stays in the saved index, a start without saved
\* entries loads the empty index with version 1.0, and a start that cannot
\* read the document does not lead to a save that drops its entries.
C33_EntriesNeverLost == [][EntriesKeptStep]_vars

\* a run started with the document unreadable has saved: the index on disk
\* is the one of this run alone
C33_UnreadableStartReached ==
  /\ run = "running"
  /\ metadata = EmptyMetadata
  /\ savedMetadata # EmptyMetadata
  /\ runCount = 2

(***************************************************************************)
(* History requests and the dispatcher.                                    *)
(***************************************************************************)
\* the submissions made to the dispatcher, and the dispatches it made
Submissions == Len(tasks)
Dispatched == \E key \in Keys : dispatchLog[key] # <<>>

\* C37: upstream history requests go through the dispatcher.  Every history
\* request of an ingestion run (one per sub-range) is a task submitted to
\* and dispatched by the Rate-Limited Dispatcher.
C37_HistoryThroughDispatcher ==
  /\ Len(requests) <= Submissions
  /\ requests # <<>> => Dispatched

\* two history requests were sent one after the other, with nothing
\* submitted to the dispatcher and no time passed between them
C37_UnspacedRequestsReached ==
  /\ Len(requests) = 2
  /\ Submissions = 0
  /\ rateLimiterState = <<>>
  /\ now = StartNow

(***************************************************************************)
(* Cancellation of a run.                                                  *)
(***************************************************************************)
\* the dispatcher holds a submission that was dispatched and rejected
RejectedSubmission ==
  \E id \in 1..Len(tasks) :
    tasks[id].exec = "finished" /\ tasks[id].result = "rejected"

\* once the signal has fired the run sends no request and finishes no
\* range, and when it moves on it has failed
CancelStep ==
  signal = "aborted" =>
    /\ requests' = requests
    /\ rangeIndex' = rangeIndex
    /\ fpc' # fpc => fpc' = "failed"

\* C38: cancellation.  When the signal fires while a dispatched request is
\* in flight, the call is aborted and the failure reaches the caller
\* waiting on that submission of the dispatcher (the run fails and requests
\* no further sub-span), the submissions queued behind it staying queued.
C38_Cancellation ==
  /\ [][CancelStep]_vars
  /\ [](signal = "aborted" /\ fpc = "failed" => RejectedSubmission)

\* what the code keeps: the signal given to fetch fails the run, and no
\* further sub-span is requested
C38_AbortFailsRun == [][CancelStep]_vars

\* the signal fired during the body of the first of two sub-spans, after
\* a block of it was written; the run failed with one request sent and
\* nothing ever submitted to the dispatcher
C38_AbortedInFlightReached ==
  /\ signal = "aborted"
  /\ fpc = "failed"
  /\ Len(requests) = 1
  /\ writeLog # <<>>
  /\ Submissions = 0

(***************************************************************************)
(* Two merge-writes of one partition under way at once.                    *)
(***************************************************************************)
BothWritten == HaveWritten = RaceWriters
FirstWriter == CHOOSE w \in RaceWriters : writers[w].order = 1
LastWriter == CHOOSE w \in RaceWriters : writers[w].order = 2
\* the later write was made by a call that read after the earlier write
Serialized == FirstWriter \in writers[LastWriter].readAfter
TimestampsOf(records) == {records[i].timestamp : i \in 1..Len(records)}

\* C31: the merge-write is not atomic.  When both calls read the partition
\* before either wrote it, the partition afterwards holds the records of
\* the last writer alone; when the second call read after the first wrote,
\* it holds a record for every timestamp of both batches, the records of
\* the first write kept.  The entryCount the last writer reported is the
\* number of records in the partition.
C31_MergeWriteRace ==
  BothWritten =>
    LET held == files[RacePath]
        first == writers[FirstWriter].records
        last == writers[LastWriter].records
    IN /\ writers[LastWriter].entryCount = Len(held)
       /\ IF Serialized
          THEN /\ TimestampsOf(held) = TimestampsOf(first) \cup TimestampsOf(last)
               /\ Elems(first) \subseteq Elems(held)
          ELSE /\ Elems(held) = Elems(last)
               /\ writers[LastWriter].existingRecords = <<>>

\* both calls read before either wrote: a record of the first writer is
\* not in the partition, and the count reported last is below the number
\* of timestamps of the two batches
C31_Witness ==
  /\ BothWritten
  /\ ~Serialized
  /\ \E r \in Elems(writers[FirstWriter].records) :
       r.timestamp \notin TimestampsOf(files[RacePath])
  /\ writers[LastWriter].entryCount <
       Cardinality(TimestampsOf(writers[FirstWriter].records)
                   \cup TimestampsOf(writers[LastWriter].records))

\* the writes were serialized and the partition holds both batches
C31_SerializedReached ==
  /\ BothWritten
  /\ Serialized
  /\ TimestampsOf(writers[FirstWriter].records)
       \cap TimestampsOf(writers[LastWriter].records) = {}
  /\ Len(files[RacePath]) = Len(writers[FirstWriter].records)
                              + Len(writers[LastWriter].records)

(***************************************************************************)
(* Specifications, one per component.                                      *)
(***************************************************************************)
InitParser ==
  /\ \E pl \in Payloads : ParserStart(pl)
  /\ LimiterIdle
  /\ SplitIdle
  /\ StoreIdle
  /\ QueryIdle
  /\ FetchIdle
  /\ RouteIdle
  /\ RaceIdle

NextParser ==
  \/ \E n \in 1..Len(payload) : Feed(n)
  \/ OnHistoryReturn
  \/ Finalize

SpecParser == InitParser /\ [][NextParser]_vars

InitLimiter ==
  /\ \E v \in Variants : LimiterStart(v)
  /\ ParserIdle
  /\ SplitIdle
  /\ StoreIdle
  /\ QueryIdle
  /\ FetchIdle
  /\ RouteIdle
  /\ RaceIdle

NextLimiter ==
  \/ \E url \in Urls, kind \in Kinds : Submit(url, kind)
  \/ \E key \in Keys : TimerFire(key)
  \/ \E key \in Keys, outcome \in {"resolved", "rejected"} :
       TaskSettle(key, outcome)
  \/ \E key \in Keys : Timeout(key)
  \/ \E id \in 1..MaxSubmits : LateSettle(id)
  \/ Tick
  \/ \E key \in Keys : AdvanceToDue(key)

SpecLimiter == InitLimiter /\ [][NextLimiter]_vars

\* Timers that are due fire, tasks that can settle do, and the clock
\* reaches every pending due time.
FairLimiter ==
  \A key \in Keys :
    /\ WF_vars(TimerFire(key))
    /\ WF_vars(\E outcome \in {"resolved", "rejected"} :
                 TaskSettle(key, outcome))
    /\ WF_vars(Timeout(key))
    /\ WF_vars(AdvanceToDue(key))

FairSpecLimiter == SpecLimiter /\ FairLimiter

InitSplit ==
  /\ \E z \in TimeZones :
       \E args \in SplitInputs : SplitStart(z, args)
  /\ ParserIdle
  /\ LimiterIdle
  /\ StoreIdle
  /\ QueryIdle
  /\ FetchIdle
  /\ RouteIdle
  /\ RaceIdle

NextSplit ==
  \/ SplitDateRange
  \/ \E fmt \in {"date", "datetime"} : CreateRangeChunks(fmt)
  \/ \E fmt \in {"date", "datetime"} : FetchThermostatHistory(fmt)
  \/ PostRange

SpecSplit == InitSplit /\ [][NextSplit]_vars

InitStore ==
  /\ StoreStart
  /\ QueryIdle
  /\ FetchIdle
  /\ RouteIdle
  /\ RaceIdle
  /\ ParserIdle
  /\ LimiterIdle
  /\ SplitIdle

NextStore ==
  \/ StartRun
  \/ \E device \in Devices, stamps \in Batches, tag \in Tags :
        WriteEntry(device.siteSlug, device.serialNo, stamps, tag)
  \/ Rewrite
  \/ SaveMetadata
  \/ FailRun

SpecStore == InitStore /\ [][NextStore]_vars

\* collection runs, the index document unreadable at some starts
NextIndex ==
  \/ StartRun
  \/ StartRunUnreadable
  \/ \E device \in Devices, stamps \in Batches, tag \in Tags :
        WriteEntry(device.siteSlug, device.serialNo, stamps, tag)
  \/ Rewrite
  \/ SaveMetadata
  \/ FailRun

SpecIndex == InitStore /\ [][NextIndex]_vars

\* a query process over a store that collections left
InitQuery ==
  /\ \E st \in StoresAfter(MaxQueryWrites) :
       /\ files = st.files
       /\ savedMetadata = st.metadata
  /\ metadata = EmptyMetadata
  /\ run = "idle"
  /\ runCount = 0
  /\ writeCount = 0
  /\ lastWrite = NoWrite
  /\ QueryStart
  /\ FetchIdle
  /\ RouteIdle
  /\ RaceIdle
  /\ ParserIdle
  /\ LimiterIdle
  /\ SplitIdle

NextQuery ==
  \/ \E q \in QueryInputs : FindFilesForQuery(q)
  \/ \E pageLimit \in 1..MaxLimit : QueryFiles(pageLimit)

SpecQuery == InitQuery /\ [][NextQuery]_vars

\* one collection reading one streamed response
InitIngest ==
  /\ \E pl \in Responses : ParserStart(pl)
  /\ StoreStart
  /\ QueryIdle
  /\ FetchIdle
  /\ RouteIdle
  /\ RaceIdle
  /\ LimiterIdle
  /\ SplitIdle

NextIngest ==
  \/ StartIngest
  \/ \E n \in 1..Len(payload) : IngestFeed(n)
  \/ OnHistoryWrite
  \/ IngestFinalize
  \/ IngestSave
  \/ IngestFail

SpecIngest == InitIngest /\ [][NextIngest]_vars

\* the parser reading the response with the long tail
InitTail ==
  /\ \E excess \in {0, TailExcess, 2 * TailExcess} :
       ParserStart(ResponseLongTail(excess))
  /\ LimiterIdle
  /\ SplitIdle
  /\ StoreIdle
  /\ QueryIdle
  /\ FetchIdle
  /\ RouteIdle
  /\ RaceIdle

NextTail ==
  \/ \E cut \in TailCuts(payload) : TailFeed(cut)
  \/ OnHistoryReturn
  \/ Finalize

SpecTail == InitTail /\ [][NextTail]_vars

\* one collection over MaxRanges sub-spans
InitFetch ==
  /\ ParserStart(<<>>)
  /\ StoreStart
  /\ FetchStart
  /\ RouteIdle
  /\ RaceIdle
  /\ QueryStart
  /\ LimiterIdle
  /\ SplitIdle

NextFetch ==
  \/ StartFetch
  \/ \E response \in FetchResponses : PostPelican(response)
  \/ \E cut \in Cuts(payload) : FetchFeed(cut)
  \/ FetchOnHistory
  \/ FetchFinalize
  \/ FetchThrows
  \/ FetchSave
  \/ SignalAbort
  \/ FetchAborted

SpecFetch == InitFetch /\ [][NextFetch]_vars

\* two calls of the writer for one partition
InitRace ==
  /\ RaceStart
  /\ StoreStart
  /\ QueryIdle
  /\ FetchIdle
  /\ RouteIdle
  /\ ParserIdle
  /\ LimiterIdle
  /\ SplitIdle

NextRace ==
  \/ \E w \in RaceWriters, stamps \in RaceBatches : WriterReads(w, stamps)
  \/ \E w \in RaceWriters : WriterWrites(w)

SpecRace == InitRace /\ [][NextRace]_vars

\* one request to the thermostats route
InitRoute ==
  /\ RaceIdle
  /\ RouteStart
  /\ ParserIdle
  /\ LimiterIdle
  /\ SplitIdle
  /\ StoreIdle
  /\ QueryStart
  /\ FetchIdle

NextRoute ==
  \/ \E req \in RouteRequests : RouteGet(req)
  \/ \E buildings \in Directories : DirectoryReturns(buildings)
  \/ DirectoryFails
  \/ \E ok \in BOOLEAN : PelicanAnswers(ok)

SpecRoute == InitRoute /\ [][NextRoute]_vars

(***************************************************************************)
(* Reference values for the Stream Extractor properties.                   *)
(***************************************************************************)
\* The top-level elements of the target array of a well-formed text, found
\* with the JSON grammar alone: a sequence of [from, to], the 1-based
\* positions of each element's first and last character.
RECURSIVE ArrayElements(_, _, _)
ArrayElements(s, i, acc) ==
  LET j == JsonWs(s, i) IN
  IF j > Len(s) \/ s[j] = "]" THEN acc
  ELSE IF s[j] = "," THEN ArrayElements(s, j + 1, acc)
  ELSE LET v == JsonValue(s, j)
       IN IF v = 0 THEN acc
          ELSE ArrayElements(s, v, Append(acc, [from |-> j, to |-> v - 1]))

TargetObjects(s) ==
  LET keyIndex == IndexOf(s, KEY, 0)
      arrayStart == IndexOf(s, <<"[">>, keyIndex + Len(KEY))
  IN ArrayElements(s, arrayStart + 2, <<>>)

ObjectText(s, o) == SubSeq(s, o.from, o.to)

\* the texts of the first k target objects of s, in array order
FirstObjects(s, k) == [i \in 1..k |-> ObjectText(s, TargetObjects(s)[i])]

\* how many target objects of s have their closing brace among the first
\* n characters
ClosedWithin(s, n) == Cardinality({i \in 1..Len(TargetObjects(s)) : TargetObjects(s)[i].to <= n})

\* Feeding the whole text in one feed call, every onHistory resolving:
\* the slices emitted and the parser left behind.
RECURSIVE ScanAll(_, _, _)
ScanAll(p, buf, acc) ==
  LET r == ScanLoop(p, buf, 0) IN
  IF r.stop = "emit"
  THEN LET e == emitHistory(r.p, r.jsonSlice)
       IN IF e.threw THEN [threw |-> TRUE, p |-> e.p, emitted |-> acc]
          ELSE ScanAll(e.p, r.buf, Append(acc, r.jsonSlice))
  ELSE [threw |-> FALSE, emitted |-> acc,
        p |-> IF r.stop = "closed" THEN r.p ELSE AfterLoop(r.p, r.buf)]

OneCall(s) ==
  LET loc == LocateArray(ParserInit, s)
  IN IF loc.found THEN ScanAll(loc.p, loc.buf, <<>>)
     ELSE [threw |-> FALSE, emitted |-> <<>>, p |-> loc.p]

\* C1: chunk-boundary invariance.  However the response is cut into
\* chunks, no feed call fails, and once finalize has been called the
\* objects handed to onHistory are those of a single feed of the whole
\* text, in the same order, with entryCount = N and historyFound =
\* historyCompleted = TRUE.
C1_ChunkInvariance ==
  /\ ppc # "threw"
  /\ ppc = "done" =>
       /\ emitted = OneCall(payload).emitted
       /\ Len(emitted) = Len(TargetObjects(payload))
       /\ summary = [historyFound |-> TRUE, historyCompleted |-> TRUE,
                     entryCount |-> Len(TargetObjects(payload))]

\* C2: emit-on-close.  Every target object is handed to onHistory exactly
\* once, in array order, at the step that scans its closing brace: when
\* feed has returned, the emitted objects are exactly those whose closing
\* brace has been fed; while feed awaits onHistory, the last emitted object
\* is the next target object and nothing after its closing brace has been
\* scanned (the local buffer is the rest of the fed text).
C2_EmitOnClose ==
  /\ ppc # "threw"
  /\ ppc \in {"idle", "done"} =>
       emitted = FirstObjects(payload, ClosedWithin(payload, fedPos))
  /\ ppc = "onHistory" =>
       /\ Len(emitted) <= Len(TargetObjects(payload))
       /\ emitted = FirstObjects(payload, Len(emitted))
       /\ buffer = StripLeading(SubSeq(payload,
                      TargetObjects(payload)[Len(emitted)].to + 1, fedPos))

\* the position of the bracket that closes the target array of s
ArrayClose(s) ==
  JsonWs(s, TargetObjects(s)[Len(TargetObjects(s))].to + 1)

\* C26: string and escape handling.  For the response whose strings hold
\* braces, a bracket, an escaped quote and an escaped backslash: feed
\* never throws, every object emitted is a target object with exactly its
\* own text, in array order, and the array is marked completed only once
\* its own closing bracket has been fed.
C26_StringsAreOpaque ==
  payload = PayloadEscapes =>
    /\ ppc # "threw"
    /\ Len(emitted) <= Len(TargetObjects(payload))
    /\ emitted = FirstObjects(payload, Len(emitted))
    /\ parser.historyCompleted => fedPos >= ArrayClose(payload)

\* a chunk of that response ended inside a string of an open object
C26_CutInStringReached ==
  /\ payload = PayloadEscapes
  /\ ppc = "idle"
  /\ parser.capturing
  /\ parser.inString
  /\ parser.braceDepth > 0

\* the text fed by the step, if it was a feed call
FedNow == SubSeq(payload, fedPos + 1, fedPos')

\* what a step does to the completed flag, the emissions and the tail
TailStep ==
  /\ parser.historyCompleted =>
       /\ parser'.historyCompleted
       /\ emitted' = emitted
       /\ parser'.entryIndex = parser.entryIndex
       /\ ppc' # "onHistory"
       /\ parser'.tailText = SliceLast(parser.tailText \o FedNow, tailLimit)
  /\ (~parser.historyCompleted /\ parser'.historyCompleted) =>
       \E k \in 1..fedPos' :
         /\ payload[k] = "]"
         /\ parser'.tailText =
              SliceLast(SubSeq(payload, k + 1, fedPos'), tailLimit)
  /\ ~parser'.historyCompleted => parser'.tailText = <<>>

\* C27: array close and tail.  historyCompleted implies historyFound and
\* the tail never holds more than tailLimit characters.  The step that
\* marks the array completed leaves in the tail the text fed after a
\* closing bracket; from then on the array stays completed, no feed call
\* emits an object, the emitted count does not change, and every chunk
\* fed is appended to the tail, which keeps its most recent tailLimit
\* characters.
C27_ArrayCloseAndTail ==
  /\ [](/\ parser.historyCompleted => parser.historyFound
        /\ Len(parser.tailText) <= tailLimit)
  /\ [][TailStep]_vars

\* the whole response was fed in several chunks, more than tailLimit
\* characters of it after the array closed, key and object among them:
\* one object was emitted and the tail holds the last tailLimit characters
C27_Witness ==
  /\ parser.historyCompleted
  /\ ppc = "done"
  /\ chunksFed = MaxChunks
  /\ fedPos = Len(payload)
  /\ fedPos - Len(LongTailHead) > tailLimit + TailExcess
  /\ Len(emitted) = 1
  /\ summary.entryCount = 1
  /\ parser.tailText = SliceLast(payload, tailLimit)

\* the one-call baseline itself: both sample texts yield their two objects
OneCallEmitsAll ==
  \A pl \in Payloads :
    /\ ~OneCall(pl).threw
    /\ OneCall(pl).emitted = FirstObjects(pl, Len(TargetObjects(pl)))
    /\ Len(TargetObjects(pl)) = 2
    /\ OneCall(pl).p.historyCompleted


====
